---- MODULE Spec2Model ----
(***************************************************************************)
(* The MOS 6502 core of rusty64: registers, status flags, the stack        *)
(* helpers, operand evaluation, the opcode decoder, the instruction set    *)
(* and the reset/NMI/IRQ sequencer at the top of step(), over a RAM that    *)
(* covers the 16-bit address space.                                        *)
(***************************************************************************)
EXTENDS Integers, Sequences, FiniteSets, TLC

VARIABLES
    pc,       \* Mos6502.pc: u16
    ac,       \* Mos6502.ac: u8
    x,        \* Mos6502.x: u8
    y,        \* Mos6502.y: u8
    sr,       \* Mos6502.sr: StatusFlags (its u8 bits)
    sp,       \* Mos6502.sp: u8
    mem,      \* Mos6502.mem: the bytes written to the RAM so far (address -> byte)
    image,    \* the contents the RAM was created with
    reset,    \* Mos6502.reset: RESET line
    nmi,      \* Mos6502.nmi: NMI line
    irq,      \* Mos6502.irq: IRQ line
    branch,   \* which branch of step() the last step() took ("none" before the first)
    cycles,   \* the value the last step() returned (0 before the first, or when it panicked)
    bus,      \* the bus accesses of the last step(), in order: <<kind, address>>
    fault,    \* "none", or the panic that aborted the program
    steps,    \* how many step() calls were made
    pre,      \* the registers, the lines and the byte at PC on entry to the last step()
    calls,    \* the direct calls of the helpers made so far, each with its argument and result
    port      \* Mos6510.port_ddr and Mos6510.port_dat, where the CPU is the core of a Mos6510

vars == <<pc, ac, x, y, sr, sp, mem, image, reset, nmi, irq, branch, cycles, bus, fault, steps, pre, calls, port>>

(***************************************************************************)
(* Bounds of the exploration.                                              *)
(***************************************************************************)
MaxSteps == 2

(***************************************************************************)
(* Program constants.                                                      *)
(***************************************************************************)
NMI_VECTOR   == 65530      \* 0xfffa
RESET_VECTOR == 65532      \* 0xfffc
IRQ_VECTOR   == 65534      \* 0xfffe

CARRY_FLAG             == 1
ZERO_FLAG              == 2
INTERRUPT_DISABLE_FLAG == 4
DECIMAL_FLAG           == 8
BREAK_FLAG             == 16
UNUSED_ALWAYS_ON_FLAG  == 32
OVERFLOW_FLAG          == 64
NEGATIVE_FLAG          == 128

StackPage == 256           \* 0x0100, the value of Masked(0x0100, 0xff00)
PageMask  == 65280         \* 0xff00, its mask

Byte == 0..255
Word == 0..65535

(***************************************************************************)
(* Fixed-width integer arithmetic.                                         *)
(***************************************************************************)
RECURSIVE BitAndN(_, _, _)
BitAndN(a, b, n) ==
    IF n = 0 THEN 0
    ELSE (IF a % 2 = 1 /\ b % 2 = 1 THEN 1 ELSE 0) + 2 * BitAndN(a \div 2, b \div 2, n - 1)

RECURSIVE BitOrN(_, _, _)
BitOrN(a, b, n) ==
    IF n = 0 THEN 0
    ELSE (IF a % 2 = 1 \/ b % 2 = 1 THEN 1 ELSE 0) + 2 * BitOrN(a \div 2, b \div 2, n - 1)

RECURSIVE BitXorN(_, _, _)
BitXorN(a, b, n) ==
    IF n = 0 THEN 0
    ELSE (IF a % 2 # b % 2 THEN 1 ELSE 0) + 2 * BitXorN(a \div 2, b \div 2, n - 1)

And8(a, b)  == BitAndN(a, b, 8)
Or8(a, b)   == BitOrN(a, b, 8)
Xor8(a, b)  == BitXorN(a, b, 8)
And16(a, b) == BitAndN(a, b, 16)
Or16(a, b)  == BitOrN(a, b, 16)
Not16(a)    == 65535 - a

\* u8::wrapping_add / wrapping_sub, u16::wrapping_add / wrapping_sub
WrapAdd8(a, n)  == (a + n) % 256
WrapSub8(a, n)  == (a - n) % 256
WrapAdd16(a, n) == (a + n) % 65536
WrapSub16(a, n) == (a - n) % 65536

\* `b as i8`: the byte read as a signed 8-bit integer
AsI8(b) == IF b >= 128 THEN b - 256 ELSE b

(***************************************************************************)
(* Addresses: u16 and Masked<u16>.                                         *)
(***************************************************************************)
\* Address::offset for u16 (wrapping)
Offset(addr, offset) ==
    IF offset < 0 THEN WrapSub16(addr, -offset) ELSE WrapAdd16(addr, offset)

\* Address::next for u16 (wrapping successor)
NextAddr(addr) == WrapAdd16(addr, 1)

\* an offset_masked that changes the bits of the mask and keeps the others
OffsetMaskedChangesMasked(addr, offset, mask) ==
    Or16(And16(addr, Not16(mask)), And16(Offset(addr, offset), mask))

\* Address::offset_masked: the bits of `mask` are kept
OffsetMasked(addr, offset, mask) ==
    Or16(And16(addr, mask), And16(Offset(addr, offset), Not16(mask)))

\* Masked(value, mask).offset(n): Masked::map over Address::offset
MaskedOffset(m, offset) ==
    [addr |-> Or16(And16(m.addr, m.mask), And16(Offset(m.addr, offset), Not16(m.mask))),
     mask |-> m.mask]

\* The successor of a Masked address: Masked::map over Address::next
MaskedNext(m) ==
    [addr |-> Or16(And16(m.addr, m.mask), And16(NextAddr(m.addr), Not16(m.mask))),
     mask |-> m.mask]

\* A plain u16 used where a Masked address is taken: nothing is protected
Plain(addr) == [addr |-> addr, mask |-> 0]

Masked(addr, mask) == [addr |-> addr, mask |-> mask]

(***************************************************************************)
(* Status flags (bitflags over u8).                                        *)
(***************************************************************************)
Contains(flags, f) == (flags \div f) % 2 = 1
Insert(flags, f)   == IF Contains(flags, f) THEN flags ELSE flags + f
Remove(flags, f)   == IF Contains(flags, f) THEN flags - f ELSE flags
SetFlag(flags, f, on) == IF on THEN Insert(flags, f) ELSE Remove(flags, f)

(***************************************************************************)
(* The RAM.  data_for_addr is the byte the test memory holds at an         *)
(* address; the images below use it for every cell they do not set.        *)
(***************************************************************************)
data_for_addr(addr) == ((addr % 256) + (addr \div 256)) % 256

RTI_OPCODE == 64           \* 0x40
BRK_OPCODE == 0            \* 0x00

\* where the NMI and IRQ vectors of the images point: 0x2010 and 0x3020
Handlers   == [nmi |-> 8208, irq |-> 12320]
NmiHandler == Handlers.nmi
IrqHandler == Handlers.irq

\* The byte an image holds at addr: the program at org (three bytes), the
\* three vectors, an RTI at each interrupt handler, data_for_addr elsewhere.
ImageByte(img, addr) ==
    IF addr = img.org THEN img.opc
    ELSE IF addr = NextAddr(img.org) THEN img.lo
    ELSE IF addr = NextAddr(NextAddr(img.org)) THEN img.hi
    ELSE IF addr = NMI_VECTOR THEN NmiHandler % 256
    ELSE IF addr = NMI_VECTOR + 1 THEN NmiHandler \div 256
    ELSE IF addr = RESET_VECTOR THEN img.org % 256
    ELSE IF addr = RESET_VECTOR + 1 THEN img.org \div 256
    ELSE IF addr = IRQ_VECTOR THEN IrqHandler % 256
    ELSE IF addr = IRQ_VECTOR + 1 THEN IrqHandler \div 256
    ELSE IF addr \in {NmiHandler, IrqHandler} THEN RTI_OPCODE
    ELSE data_for_addr(addr)

(***************************************************************************)
(* The CPU as a value: the fields of Mos6502 together with the observers.  *)
(***************************************************************************)
This ==
    [pc |-> pc, ac |-> ac, x |-> x, y |-> y, sr |-> sr, sp |-> sp, mem |-> mem,
     reset |-> reset, nmi |-> nmi, irq |-> irq,
     branch |-> "none", cycles |-> 0, bus |-> <<>>, fault |-> fault]

\* Ram::get
Get(c, addr) == IF addr \in DOMAIN c.mem THEN c.mem[addr] ELSE ImageByte(image, addr)

\* Ram::set
Set(c, addr, data) ==
    [c EXCEPT !.mem = [a \in (DOMAIN c.mem) \cup {addr} |-> IF a = addr THEN data ELSE c.mem[a]]]

\* One access seen on the bus
Seen(c, kind, addr) == [c EXCEPT !.bus = Append(@, <<kind, addr>>)]

\* Addressable::get_le::<u16> at a (masked) address: low byte first
GetLe16(c, m) == Get(c, m.addr) + 256 * Get(c, MaskedNext(m).addr)

SeenLe16(c, kind, m) == Seen(Seen(c, kind, m.addr), kind, MaskedNext(m).addr)

\* Addressable::set_le::<u16> at a (masked) address: low byte first
SetLe16(c, m, value) ==
    Set(Set(c, m.addr, value % 256), MaskedNext(m).addr, value \div 256)

\* A panic: nothing after it runs
Panic(c, what) == [c EXCEPT !.fault = what]

Ok(c) == c.fault = "none"

\* `self.pc += n`, `pc + n`, `pc - n`: u16 arithmetic, which panics on overflow
\* in a build with overflow checks and wraps in a build without
AddPc(c, n, checks) ==
    IF c.pc + n > 65535
    THEN IF checks THEN Panic(c, "overflow") ELSE [c EXCEPT !.pc = (c.pc + n) % 65536]
    ELSE [c EXCEPT !.pc = c.pc + n]

(***************************************************************************)
(* Mos6502::set_zn                                                         *)
(***************************************************************************)
set_zn(c, value) ==
    [c EXCEPT !.sr = SetFlag(SetFlag(@, ZERO_FLAG, value = 0), NEGATIVE_FLAG, value >= 128)]

(***************************************************************************)
(* Mos6502::push and Mos6502::pop, for u8 and u16.                         *)
(***************************************************************************)
\* a stack address that leaves the stack page when SP wraps
StackAddrUnmasked(s) == Plain(StackPage + s + 1)

StackAddr(s) == MaskedOffset(Masked(StackPage, PageMask), s + 1)

push8(c, value) ==
    LET s    == WrapSub8(c.sp, 1)
        addr == StackAddr(s)
    IN  Seen(Set([c EXCEPT !.sp = s], addr.addr, value), "push", addr.addr)

\* a word pushed high byte first
push16BigEndian(c, value) ==
    LET s    == WrapSub8(c.sp, 2)
        addr == StackAddr(s)
    IN  SeenLe16(SetLe16([c EXCEPT !.sp = s], addr, (value % 256) * 256 + value \div 256),
                 "push", addr)

push16(c, value) ==
    LET s    == WrapSub8(c.sp, 2)
        addr == StackAddr(s)
    IN  SeenLe16(SetLe16([c EXCEPT !.sp = s], addr, value), "push", addr)

\* the value a pop returns
pop8value(c)  == Get(c, StackAddr(c.sp).addr)

\* a word popped whose second byte is read past the stack page
pop16valueUnmasked(c) ==
    Get(c, StackAddr(c.sp).addr) + 256 * Get(c, NextAddr(StackAddr(c.sp).addr))

pop16value(c) == GetLe16(c, StackAddr(c.sp))

\* the CPU after the pop
pop8(c)  == Seen([c EXCEPT !.sp = WrapAdd8(@, 1)], "pop", StackAddr(c.sp).addr)
pop16(c) == SeenLe16([c EXCEPT !.sp = WrapAdd8(@, 2)], "pop", StackAddr(c.sp))

(***************************************************************************)
(* Mos6502::next_instruction: the opcode table.                            *)
(***************************************************************************)
NoInstruction == <<0, "None", "None">>

Decode(opcode) ==
    CASE opcode =   0 -> <<7, "BRK", "Implied">>    \* 0x00
      [] opcode =   1 -> <<6, "ORA", "ZeroPageIndexedWithXIndirect">>    \* 0x01
      [] opcode =   5 -> <<3, "ORA", "ZeroPage">>    \* 0x05
      [] opcode =   6 -> <<5, "ASL", "ZeroPage">>    \* 0x06
      [] opcode =   8 -> <<3, "PHP", "Implied">>    \* 0x08
      [] opcode =   9 -> <<2, "ORA", "Immediate">>    \* 0x09
      [] opcode =  10 -> <<2, "ASL", "Accumulator">>    \* 0x0a
      [] opcode =  13 -> <<4, "ORA", "Absolute">>    \* 0x0d
      [] opcode =  14 -> <<6, "ASL", "Absolute">>    \* 0x0e
      [] opcode =  16 -> <<2, "BPL", "Relative">>    \* 0x10
      [] opcode =  17 -> <<5, "ORA", "ZeroPageIndirectIndexedWithY">>    \* 0x11
      [] opcode =  21 -> <<4, "ORA", "ZeroPageIndexedWithX">>    \* 0x15
      [] opcode =  22 -> <<6, "ASL", "ZeroPageIndexedWithX">>    \* 0x16
      [] opcode =  24 -> <<2, "CLC", "Implied">>    \* 0x18
      [] opcode =  25 -> <<4, "ORA", "AbsoluteIndexedWithY">>    \* 0x19
      [] opcode =  29 -> <<4, "ORA", "AbsoluteIndexedWithX">>    \* 0x1d
      [] opcode =  30 -> <<7, "ASL", "AbsoluteIndexedWithX">>    \* 0x1e
      [] opcode =  32 -> <<6, "JSR", "Absolute">>    \* 0x20
      [] opcode =  33 -> <<6, "AND", "ZeroPageIndexedWithXIndirect">>    \* 0x21
      [] opcode =  36 -> <<3, "BIT", "ZeroPage">>    \* 0x24
      [] opcode =  37 -> <<3, "AND", "ZeroPage">>    \* 0x25
      [] opcode =  38 -> <<5, "ROL", "ZeroPage">>    \* 0x26
      [] opcode =  40 -> <<4, "PLP", "Implied">>    \* 0x28
      [] opcode =  41 -> <<2, "AND", "Immediate">>    \* 0x29
      [] opcode =  42 -> <<2, "ROL", "Accumulator">>    \* 0x2a
      [] opcode =  44 -> <<4, "BIT", "Absolute">>    \* 0x2c
      [] opcode =  45 -> <<4, "AND", "Absolute">>    \* 0x2d
      [] opcode =  46 -> <<6, "ROL", "Absolute">>    \* 0x2e
      [] opcode =  48 -> <<2, "BMI", "Relative">>    \* 0x30
      [] opcode =  49 -> <<5, "AND", "ZeroPageIndirectIndexedWithY">>    \* 0x31
      [] opcode =  53 -> <<4, "AND", "ZeroPageIndexedWithX">>    \* 0x35
      [] opcode =  54 -> <<6, "ROL", "ZeroPageIndexedWithX">>    \* 0x36
      [] opcode =  56 -> <<2, "SEC", "Implied">>    \* 0x38
      [] opcode =  57 -> <<4, "AND", "AbsoluteIndexedWithY">>    \* 0x39
      [] opcode =  61 -> <<4, "AND", "AbsoluteIndexedWithX">>    \* 0x3d
      [] opcode =  62 -> <<7, "ROL", "AbsoluteIndexedWithX">>    \* 0x3e
      [] opcode =  64 -> <<6, "RTI", "Implied">>    \* 0x40
      [] opcode =  65 -> <<6, "EOR", "ZeroPageIndexedWithXIndirect">>    \* 0x41
      [] opcode =  69 -> <<3, "EOR", "ZeroPage">>    \* 0x45
      [] opcode =  70 -> <<5, "LSR", "ZeroPage">>    \* 0x46
      [] opcode =  72 -> <<3, "PHA", "Implied">>    \* 0x48
      [] opcode =  73 -> <<2, "EOR", "Immediate">>    \* 0x49
      [] opcode =  74 -> <<2, "LSR", "Accumulator">>    \* 0x4a
      [] opcode =  76 -> <<3, "JMP", "Absolute">>    \* 0x4c
      [] opcode =  77 -> <<4, "EOR", "Absolute">>    \* 0x4d
      [] opcode =  78 -> <<6, "LSR", "Absolute">>    \* 0x4e
      [] opcode =  80 -> <<2, "BVC", "Relative">>    \* 0x50
      [] opcode =  81 -> <<5, "EOR", "ZeroPageIndirectIndexedWithY">>    \* 0x51
      [] opcode =  85 -> <<4, "EOR", "ZeroPageIndexedWithX">>    \* 0x55
      [] opcode =  86 -> <<6, "LSR", "ZeroPageIndexedWithX">>    \* 0x56
      [] opcode =  88 -> <<2, "CLI", "Implied">>    \* 0x58
      [] opcode =  89 -> <<4, "EOR", "AbsoluteIndexedWithY">>    \* 0x59
      [] opcode =  93 -> <<4, "EOR", "AbsoluteIndexedWithX">>    \* 0x5d
      [] opcode =  94 -> <<7, "LSR", "AbsoluteIndexedWithX">>    \* 0x5e
      [] opcode =  96 -> <<6, "RTS", "Implied">>    \* 0x60
      [] opcode =  97 -> <<6, "ADC", "ZeroPageIndexedWithXIndirect">>    \* 0x61
      [] opcode = 101 -> <<3, "ADC", "ZeroPage">>    \* 0x65
      [] opcode = 102 -> <<5, "ROR", "ZeroPage">>    \* 0x66
      [] opcode = 104 -> <<4, "PLA", "Implied">>    \* 0x68
      [] opcode = 105 -> <<2, "ADC", "Immediate">>    \* 0x69
      [] opcode = 106 -> <<2, "ROR", "Accumulator">>    \* 0x6a
      [] opcode = 108 -> <<5, "JMP", "Indirect">>    \* 0x6c
      [] opcode = 109 -> <<4, "ADC", "Absolute">>    \* 0x6d
      [] opcode = 110 -> <<6, "ROR", "Absolute">>    \* 0x6e
      [] opcode = 112 -> <<2, "BVS", "Relative">>    \* 0x70
      [] opcode = 113 -> <<5, "ADC", "ZeroPageIndirectIndexedWithY">>    \* 0x71
      [] opcode = 117 -> <<4, "ADC", "ZeroPageIndexedWithX">>    \* 0x75
      [] opcode = 118 -> <<6, "ROR", "ZeroPageIndexedWithX">>    \* 0x76
      [] opcode = 120 -> <<2, "SEI", "Implied">>    \* 0x78
      [] opcode = 121 -> <<4, "ADC", "AbsoluteIndexedWithY">>    \* 0x79
      [] opcode = 125 -> <<4, "ADC", "AbsoluteIndexedWithX">>    \* 0x7d
      [] opcode = 126 -> <<7, "ROR", "AbsoluteIndexedWithX">>    \* 0x7e
      [] opcode = 129 -> <<6, "STA", "ZeroPageIndexedWithXIndirect">>    \* 0x81
      [] opcode = 132 -> <<3, "STY", "ZeroPage">>    \* 0x84
      [] opcode = 133 -> <<3, "STA", "ZeroPage">>    \* 0x85
      [] opcode = 134 -> <<3, "STX", "ZeroPage">>    \* 0x86
      [] opcode = 136 -> <<2, "DEY", "Implied">>    \* 0x88
      [] opcode = 138 -> <<2, "TXA", "Implied">>    \* 0x8a
      [] opcode = 140 -> <<4, "STY", "Absolute">>    \* 0x8c
      [] opcode = 141 -> <<4, "STA", "Absolute">>    \* 0x8d
      [] opcode = 142 -> <<4, "STX", "Absolute">>    \* 0x8e
      [] opcode = 144 -> <<2, "BCC", "Relative">>    \* 0x90
      [] opcode = 145 -> <<6, "STA", "ZeroPageIndirectIndexedWithY">>    \* 0x91
      [] opcode = 148 -> <<4, "STY", "ZeroPageIndexedWithX">>    \* 0x94
      [] opcode = 149 -> <<4, "STA", "ZeroPageIndexedWithX">>    \* 0x95
      [] opcode = 150 -> <<4, "STX", "ZeroPageIndexedWithY">>    \* 0x96
      [] opcode = 152 -> <<2, "TYA", "Implied">>    \* 0x98
      [] opcode = 153 -> <<5, "STA", "AbsoluteIndexedWithY">>    \* 0x99
      [] opcode = 154 -> <<2, "TXS", "Implied">>    \* 0x9a
      [] opcode = 157 -> <<5, "STA", "AbsoluteIndexedWithX">>    \* 0x9d
      [] opcode = 160 -> <<2, "LDY", "Immediate">>    \* 0xa0
      [] opcode = 161 -> <<6, "LDA", "ZeroPageIndexedWithXIndirect">>    \* 0xa1
      [] opcode = 162 -> <<2, "LDX", "Immediate">>    \* 0xa2
      [] opcode = 164 -> <<3, "LDY", "ZeroPage">>    \* 0xa4
      [] opcode = 165 -> <<3, "LDA", "ZeroPage">>    \* 0xa5
      [] opcode = 166 -> <<3, "LDX", "ZeroPage">>    \* 0xa6
      [] opcode = 168 -> <<2, "TAY", "Implied">>    \* 0xa8
      [] opcode = 169 -> <<2, "LDA", "Immediate">>    \* 0xa9
      [] opcode = 170 -> <<2, "TAX", "Implied">>    \* 0xaa
      [] opcode = 172 -> <<4, "LDY", "Absolute">>    \* 0xac
      [] opcode = 173 -> <<4, "LDA", "Absolute">>    \* 0xad
      [] opcode = 174 -> <<4, "LDX", "Absolute">>    \* 0xae
      [] opcode = 176 -> <<2, "BCS", "Relative">>    \* 0xb0
      [] opcode = 177 -> <<5, "LDA", "ZeroPageIndirectIndexedWithY">>    \* 0xb1
      [] opcode = 180 -> <<4, "LDY", "ZeroPageIndexedWithX">>    \* 0xb4
      [] opcode = 181 -> <<4, "LDA", "ZeroPageIndexedWithX">>    \* 0xb5
      [] opcode = 182 -> <<4, "LDX", "ZeroPageIndexedWithY">>    \* 0xb6
      [] opcode = 184 -> <<2, "CLV", "Implied">>    \* 0xb8
      [] opcode = 185 -> <<4, "LDA", "AbsoluteIndexedWithY">>    \* 0xb9
      [] opcode = 186 -> <<2, "TSX", "Implied">>    \* 0xba
      [] opcode = 188 -> <<4, "LDY", "AbsoluteIndexedWithX">>    \* 0xbc
      [] opcode = 189 -> <<4, "LDA", "AbsoluteIndexedWithX">>    \* 0xbd
      [] opcode = 190 -> <<4, "LDX", "AbsoluteIndexedWithY">>    \* 0xbe
      [] opcode = 192 -> <<2, "CPY", "Immediate">>    \* 0xc0
      [] opcode = 193 -> <<6, "CMP", "ZeroPageIndexedWithXIndirect">>    \* 0xc1
      [] opcode = 196 -> <<3, "CPY", "ZeroPage">>    \* 0xc4
      [] opcode = 197 -> <<3, "CMP", "ZeroPage">>    \* 0xc5
      [] opcode = 198 -> <<5, "DEC", "ZeroPage">>    \* 0xc6
      [] opcode = 200 -> <<2, "INY", "Implied">>    \* 0xc8
      [] opcode = 201 -> <<2, "CMP", "Immediate">>    \* 0xc9
      [] opcode = 202 -> <<2, "DEX", "Implied">>    \* 0xca
      [] opcode = 204 -> <<4, "CPY", "Absolute">>    \* 0xcc
      [] opcode = 205 -> <<4, "CMP", "Absolute">>    \* 0xcd
      [] opcode = 206 -> <<6, "DEC", "Absolute">>    \* 0xce
      [] opcode = 208 -> <<2, "BNE", "Relative">>    \* 0xd0
      [] opcode = 209 -> <<5, "CMP", "ZeroPageIndirectIndexedWithY">>    \* 0xd1
      [] opcode = 213 -> <<4, "CMP", "ZeroPageIndexedWithX">>    \* 0xd5
      [] opcode = 214 -> <<6, "DEC", "ZeroPageIndexedWithX">>    \* 0xd6
      [] opcode = 216 -> <<2, "CLD", "Implied">>    \* 0xd8
      [] opcode = 217 -> <<4, "CMP", "AbsoluteIndexedWithY">>    \* 0xd9
      [] opcode = 221 -> <<4, "CMP", "AbsoluteIndexedWithX">>    \* 0xdd
      [] opcode = 222 -> <<7, "DEC", "AbsoluteIndexedWithX">>    \* 0xde
      [] opcode = 224 -> <<2, "CPX", "Immediate">>    \* 0xe0
      [] opcode = 225 -> <<6, "SBC", "ZeroPageIndexedWithXIndirect">>    \* 0xe1
      [] opcode = 228 -> <<3, "CPX", "ZeroPage">>    \* 0xe4
      [] opcode = 229 -> <<3, "SBC", "ZeroPage">>    \* 0xe5
      [] opcode = 230 -> <<5, "INC", "ZeroPage">>    \* 0xe6
      [] opcode = 232 -> <<2, "INX", "Implied">>    \* 0xe8
      [] opcode = 233 -> <<2, "SBC", "Immediate">>    \* 0xe9
      [] opcode = 234 -> <<2, "NOP", "Implied">>    \* 0xea
      [] opcode = 236 -> <<4, "CPX", "Absolute">>    \* 0xec
      [] opcode = 237 -> <<4, "SBC", "Absolute">>    \* 0xed
      [] opcode = 238 -> <<6, "INC", "Absolute">>    \* 0xee
      [] opcode = 240 -> <<2, "BEQ", "Relative">>    \* 0xf0
      [] opcode = 241 -> <<5, "SBC", "ZeroPageIndirectIndexedWithY">>    \* 0xf1
      [] opcode = 245 -> <<4, "SBC", "ZeroPageIndexedWithX">>    \* 0xf5
      [] opcode = 246 -> <<6, "INC", "ZeroPageIndexedWithX">>    \* 0xf6
      [] opcode = 248 -> <<2, "SED", "Implied">>    \* 0xf8
      [] opcode = 249 -> <<4, "SBC", "AbsoluteIndexedWithY">>    \* 0xf9
      [] opcode = 253 -> <<4, "SBC", "AbsoluteIndexedWithX">>    \* 0xfd
      [] opcode = 254 -> <<7, "INC", "AbsoluteIndexedWithX">>    \* 0xfe
      [] OTHER -> NoInstruction

\* a table whose ASL A ($0A) takes an immediate operand
OpcodeTableAslImmediate ==
    [opcode \in Byte |-> IF opcode = 10 THEN <<2, "ASL", "Immediate">> ELSE Decode(opcode)]

OpcodeTable == [opcode \in Byte |-> Decode(opcode)]

\* size in bytes of the operand each addressing mode fetches with next()
OperandSize(mode) ==
    CASE mode \in {"Implied", "Accumulator"} -> 0
      [] mode \in {"Immediate", "Relative", "ZeroPage", "ZeroPageIndexedWithX",
                   "ZeroPageIndexedWithY", "ZeroPageIndexedWithXIndirect",
                   "ZeroPageIndirectIndexedWithY"} -> 1
      [] mode \in {"Absolute", "AbsoluteIndexedWithX", "AbsoluteIndexedWithY",
                   "Indirect"} -> 2

(***************************************************************************)
(* Operands (addressing modes): Operand::addr, Operand::get, Operand::set. *)
(***************************************************************************)
NoAddrModes  == {"Implied", "Immediate", "Accumulator"}
NoValueModes == {"Implied", "Relative"}
NoSetModes   == {"Implied", "Immediate", "Relative"}

\* an Indirect operand whose pointer word crosses into the next page
OperandAddrIndirectCrossesPage(c, opd) ==
    CASE opd.mode = "Relative"                     -> Offset(c.pc, opd.val)
      [] opd.mode = "Absolute"                     -> opd.val
      [] opd.mode = "AbsoluteIndexedWithX"         -> Offset(opd.val, c.x)
      [] opd.mode = "AbsoluteIndexedWithY"         -> Offset(opd.val, c.y)
      [] opd.mode = "Indirect"                     -> GetLe16(c, Plain(opd.val))
      [] opd.mode = "ZeroPage"                     -> opd.val
      [] opd.mode = "ZeroPageIndexedWithX"         -> WrapAdd8(opd.val, c.x)
      [] opd.mode = "ZeroPageIndexedWithY"         -> WrapAdd8(opd.val, c.y)
      [] opd.mode = "ZeroPageIndexedWithXIndirect" -> GetLe16(c, Plain(WrapAdd8(opd.val, c.x)))
      [] opd.mode = "ZeroPageIndirectIndexedWithY" -> WrapAdd16(GetLe16(c, Plain(opd.val)), c.y)
      [] OTHER                                     -> 0

\* zero-page indexing that carries into page 1
OperandAddrZeroPageCarries(c, opd) ==
    CASE opd.mode = "Relative"                     -> Offset(c.pc, opd.val)
      [] opd.mode = "Absolute"                     -> opd.val
      [] opd.mode = "AbsoluteIndexedWithX"         -> Offset(opd.val, c.x)
      [] opd.mode = "AbsoluteIndexedWithY"         -> Offset(opd.val, c.y)
      [] opd.mode = "Indirect"                     -> GetLe16(c, Masked(opd.val, PageMask))
      [] opd.mode = "ZeroPage"                     -> opd.val
      [] opd.mode = "ZeroPageIndexedWithX"         -> opd.val + c.x
      [] opd.mode = "ZeroPageIndexedWithY"         -> opd.val + c.y
      [] opd.mode = "ZeroPageIndexedWithXIndirect" -> GetLe16(c, Plain(opd.val + c.x))
      [] opd.mode = "ZeroPageIndirectIndexedWithY" -> WrapAdd16(GetLe16(c, Plain(opd.val)), c.y)
      [] OTHER                                     -> 0

\* zero-page indirect modes whose pointer word stays in the zero page
OperandAddrPointerWraps(c, opd) ==
    CASE opd.mode = "Relative"                     -> Offset(c.pc, opd.val)
      [] opd.mode = "Absolute"                     -> opd.val
      [] opd.mode = "AbsoluteIndexedWithX"         -> Offset(opd.val, c.x)
      [] opd.mode = "AbsoluteIndexedWithY"         -> Offset(opd.val, c.y)
      [] opd.mode = "Indirect"                     -> GetLe16(c, Masked(opd.val, PageMask))
      [] opd.mode = "ZeroPage"                     -> opd.val
      [] opd.mode = "ZeroPageIndexedWithX"         -> WrapAdd8(opd.val, c.x)
      [] opd.mode = "ZeroPageIndexedWithY"         -> WrapAdd8(opd.val, c.y)
      [] opd.mode = "ZeroPageIndexedWithXIndirect" ->
            GetLe16(c, Masked(WrapAdd8(opd.val, c.x), PageMask))
      [] opd.mode = "ZeroPageIndirectIndexedWithY" ->
            WrapAdd16(GetLe16(c, Masked(opd.val, PageMask)), c.y)
      [] OTHER                                     -> 0

\* Operand::addr: the address an operand targets
OperandAddr(c, opd) ==
    CASE opd.mode = "Relative"                     -> Offset(c.pc, opd.val)
      [] opd.mode = "Absolute"                     -> opd.val
      [] opd.mode = "AbsoluteIndexedWithX"         -> Offset(opd.val, c.x)
      [] opd.mode = "AbsoluteIndexedWithY"         -> Offset(opd.val, c.y)
      [] opd.mode = "Indirect"                     -> GetLe16(c, Masked(opd.val, PageMask))
      [] opd.mode = "ZeroPage"                     -> opd.val
      [] opd.mode = "ZeroPageIndexedWithX"         -> WrapAdd8(opd.val, c.x)
      [] opd.mode = "ZeroPageIndexedWithY"         -> WrapAdd8(opd.val, c.y)
      [] opd.mode = "ZeroPageIndexedWithXIndirect" -> GetLe16(c, Plain(WrapAdd8(opd.val, c.x)))
      [] opd.mode = "ZeroPageIndirectIndexedWithY" -> WrapAdd16(GetLe16(c, Plain(opd.val)), c.y)
      [] OTHER                                     -> 0

\* the CPU after Operand::addr: its bus reads, or its panic
AddrSeen(c, opd) ==
    CASE opd.mode \in NoAddrModes                  -> Panic(c, "operand")
      [] opd.mode = "Indirect"                     -> SeenLe16(c, "read", Masked(opd.val, PageMask))
      [] opd.mode = "ZeroPageIndexedWithXIndirect" -> SeenLe16(c, "read", Plain(WrapAdd8(opd.val, c.x)))
      [] opd.mode = "ZeroPageIndirectIndexedWithY" -> SeenLe16(c, "read", Plain(opd.val))
      [] OTHER                                     -> c

\* Operand::get: the value an operand specifies
OperandGet(c, opd) ==
    CASE opd.mode = "Immediate"     -> opd.val
      [] opd.mode = "Accumulator"   -> c.ac
      [] opd.mode \in NoValueModes  -> 0
      [] OTHER                      -> Get(c, OperandAddr(c, opd))

\* the CPU after Operand::get: its bus reads, or its panic
GetSeen(c, opd) ==
    CASE opd.mode \in NoValueModes                -> Panic(c, "operand")
      [] opd.mode \in {"Immediate", "Accumulator"} -> c
      [] OTHER -> Seen(AddrSeen(c, opd), "read", OperandAddr(c, opd))

\* Operand::set
OperandSet(c, opd, value) ==
    CASE opd.mode \in NoSetModes  -> Panic(c, "operand")
      [] opd.mode = "Accumulator" -> [c EXCEPT !.ac = value]
      [] OTHER ->
            LET addr == OperandAddr(c, opd)
            IN  Seen(Set(AddrSeen(c, opd), addr, value), "write", addr)

\* what follows a step that may have panicked
Then(r, result) == IF Ok(r) THEN result ELSE r

(***************************************************************************)
(* Instruction::execute                                                    *)
(***************************************************************************)
\* LDA, LDX, LDY
Load(c, opd, reg) ==
    LET value == OperandGet(c, opd)
        r     == GetSeen(c, opd)
    IN  Then(r, set_zn([r EXCEPT ![reg] = value], value))

\* a transfer that leaves the flags alone, as TXS does
TransferKeepsFlags(c, from, to) == [c EXCEPT ![to] = c[from]]

\* TAX, TAY, TXA, TYA, TSX
Transfer(c, from, to) == set_zn([c EXCEPT ![to] = c[from]], c[from])

\* AND, EOR, ORA
Logical(c, opd, result) ==
    LET r == GetSeen(c, opd)
    IN  Then(r, set_zn([r EXCEPT !.ac = result], result))

BIT(c, opd) ==
    LET value == OperandGet(c, opd)
        r     == GetSeen(c, opd)
    IN  Then(r, [r EXCEPT !.sr =
            SetFlag(SetFlag(SetFlag(@, ZERO_FLAG, And8(value, c.ac) = 0),
                            NEGATIVE_FLAG, And8(value, 128) # 0),
                    OVERFLOW_FLAG, And8(value, 64) # 0)])

\* an ADC that ignores the carry
ADCWithoutCarry(c, opd) ==
    IF Contains(c.sr, DECIMAL_FLAG) THEN Panic(c, "decimal")
    ELSE
    LET value   == OperandGet(c, opd)
        r       == GetSeen(c, opd)
        sum     == WrapAdd16(c.ac, value)
        result  == sum % 256
        carry   == And16(sum, 256) # 0
        ovf     == And8(Xor8(c.ac, value), 128) = 0 /\ And8(Xor8(c.ac, result), 128) = 128
    IN  Then(r, set_zn([r EXCEPT !.sr = SetFlag(SetFlag(@, CARRY_FLAG, carry), OVERFLOW_FLAG, ovf),
                                 !.ac = result], result))

\* an ADC that adds in binary whatever D holds
ADCIgnoresDecimal(c, opd) ==
    LET value   == OperandGet(c, opd)
        r       == GetSeen(c, opd)
        sum     == WrapAdd16(WrapAdd16(c.ac, value), IF Contains(c.sr, CARRY_FLAG) THEN 1 ELSE 0)
        result  == sum % 256
        carry   == And16(sum, 256) # 0
        ovf     == And8(Xor8(c.ac, value), 128) = 0 /\ And8(Xor8(c.ac, result), 128) = 128
    IN  Then(r, set_zn([r EXCEPT !.sr = SetFlag(SetFlag(@, CARRY_FLAG, carry), OVERFLOW_FLAG, ovf),
                                 !.ac = result], result))

ADC(c, opd) ==
    IF Contains(c.sr, DECIMAL_FLAG) THEN Panic(c, "decimal")
    ELSE
    LET value   == OperandGet(c, opd)
        r       == GetSeen(c, opd)
        sum     == WrapAdd16(WrapAdd16(c.ac, value), IF Contains(c.sr, CARRY_FLAG) THEN 1 ELSE 0)
        result  == sum % 256
        carry   == And16(sum, 256) # 0
        ovf     == And8(Xor8(c.ac, value), 128) = 0 /\ And8(Xor8(c.ac, result), 128) = 128
    IN  Then(r, set_zn([r EXCEPT !.sr = SetFlag(SetFlag(@, CARRY_FLAG, carry), OVERFLOW_FLAG, ovf),
                                 !.ac = result], result))

\* an SBC that leaves the carry set on a borrow
SBCCarryOnBorrow(c, opd) ==
    IF Contains(c.sr, DECIMAL_FLAG) THEN Panic(c, "decimal")
    ELSE
    LET value   == OperandGet(c, opd)
        r       == GetSeen(c, opd)
        diff    == WrapSub16(WrapSub16(c.ac, value), IF Contains(c.sr, CARRY_FLAG) THEN 0 ELSE 1)
        result  == diff % 256
        carry   == And16(diff, 256) # 0
        ovf     == And8(Xor8(c.ac, result), 128) # 0 /\ And8(Xor8(c.ac, value), 128) = 128
    IN  Then(r, set_zn([r EXCEPT !.sr = SetFlag(SetFlag(@, CARRY_FLAG, carry), OVERFLOW_FLAG, ovf),
                                 !.ac = result], result))

SBC(c, opd) ==
    IF Contains(c.sr, DECIMAL_FLAG) THEN Panic(c, "decimal")
    ELSE
    LET value   == OperandGet(c, opd)
        r       == GetSeen(c, opd)
        diff    == WrapSub16(WrapSub16(c.ac, value), IF Contains(c.sr, CARRY_FLAG) THEN 0 ELSE 1)
        result  == diff % 256
        carry   == And16(diff, 256) = 0
        ovf     == And8(Xor8(c.ac, result), 128) # 0 /\ And8(Xor8(c.ac, value), 128) = 128
    IN  Then(r, set_zn([r EXCEPT !.sr = SetFlag(SetFlag(@, CARRY_FLAG, carry), OVERFLOW_FLAG, ovf),
                                 !.ac = result], result))

\* a compare of the bytes as signed numbers
CompareSigned(c, opd, reg) ==
    LET result == AsI8(c[reg]) - AsI8(OperandGet(c, opd))
        r      == GetSeen(c, opd)
    IN  Then(r, set_zn([r EXCEPT !.sr = SetFlag(@, CARRY_FLAG, result >= 0)], result % 256))

\* CMP, CPX, CPY
Compare(c, opd, reg) ==
    LET result == c[reg] - OperandGet(c, opd)      \* i16
        r      == GetSeen(c, opd)
    IN  Then(r, set_zn([r EXCEPT !.sr = SetFlag(@, CARRY_FLAG, result >= 0)], result % 256))

\* an INC or DEC that reads the stored byte back to set the flags
IncDecReadsBack(c, opd, delta) ==
    LET value == (OperandGet(c, opd) + delta) % 256
        r     == GetSeen(c, opd)
        w     == OperandSet(r, opd, value)
        g     == GetSeen(w, opd)
    IN  Then(r, Then(w, set_zn(g, value)))

\* INC, DEC
IncDec(c, opd, delta) ==
    LET value == (OperandGet(c, opd) + delta) % 256
        r     == GetSeen(c, opd)
        w     == OperandSet(r, opd, value)
    IN  Then(r, Then(w, set_zn(w, value)))

\* INX, INY, DEX, DEY
IncDecReg(c, reg, delta) ==
    LET value == (c[reg] + delta) % 256
    IN  set_zn([c EXCEPT ![reg] = value], value)

\* ASL, LSR, ROL, ROR: `carry` is the new carry flag, `result` the new value
Shift(c, opd, carry, result) ==
    LET r == GetSeen(c, opd)
        f == [r EXCEPT !.sr = SetFlag(@, CARRY_FLAG, carry)]
        w == OperandSet(f, opd, result)
    IN  Then(r, Then(w, set_zn(w, result)))

ASL(c, opd) ==
    LET value == OperandGet(c, opd)
    IN  Shift(c, opd, And8(value, 128) # 0, (value * 2) % 256)

LSR(c, opd) ==
    LET value == OperandGet(c, opd)
    IN  Shift(c, opd, And8(value, 1) # 0, value \div 2)

ROL(c, opd) ==
    LET carry == Contains(c.sr, CARRY_FLAG)
        value == OperandGet(c, opd)
        shl   == (value * 2) % 256
    IN  Shift(c, opd, And8(value, 128) # 0, IF carry THEN Or8(shl, 1) ELSE shl)

\* a ROR that shifts a zero in, as LSR does
RORShiftsInZero(c, opd) ==
    LET value == OperandGet(c, opd)
    IN  Shift(c, opd, And8(value, 1) # 0, value \div 2)

ROR(c, opd) ==
    LET carry == Contains(c.sr, CARRY_FLAG)
        value == OperandGet(c, opd)
        shr   == value \div 2
    IN  Shift(c, opd, And8(value, 1) # 0, IF carry THEN Or8(shr, 128) ELSE shr)

JMP(c, opd) ==
    LET r == AddrSeen(c, opd)
    IN  Then(r, [r EXCEPT !.pc = OperandAddr(c, opd)])

\* a JSR that pushes the address of the next instruction
JSRPushesNext(c, opd, checks) ==
    LET p == push16(c, c.pc)
        r == AddrSeen(p, opd)
    IN  Then(r, [r EXCEPT !.pc = OperandAddr(p, opd)])

JSR(c, opd, checks) ==
    LET last == IF c.pc = 0
                THEN IF checks THEN -1 ELSE 65535      \* pc - 1
                ELSE c.pc - 1
        p    == push16(c, last)
        r    == AddrSeen(p, opd)
    IN  IF last = -1 THEN Panic(c, "overflow")
        ELSE Then(r, [r EXCEPT !.pc = OperandAddr(p, opd)])

RTS(c, checks) ==
    LET r == [pop16(c) EXCEPT !.pc = pop16value(c)]
    IN  AddPc(r, 1, checks)

\* a branch that is taken whatever its condition
BranchAlways(c, opd, taken) ==
    LET r == AddrSeen(c, opd) IN Then(r, [r EXCEPT !.pc = OperandAddr(c, opd)])

\* BCC, BCS, BEQ, BMI, BNE, BPL, BVC, BVS
Branch(c, opd, taken) ==
    IF taken
    THEN LET r == AddrSeen(c, opd) IN Then(r, [r EXCEPT !.pc = OperandAddr(c, opd)])
    ELSE c

\* a BRK that pushes the address of its signature byte
BRKNoSkip(c, checks) ==
    LET b    == [c EXCEPT !.sr = Insert(@, BREAK_FLAG)]
        p    == push8(push16(b, b.pc), b.sr)
        i    == [p EXCEPT !.sr = Insert(@, INTERRUPT_DISABLE_FLAG)]
    IN  [SeenLe16(i, "vector", Plain(IRQ_VECTOR)) EXCEPT !.pc = GetLe16(i, Plain(IRQ_VECTOR))]

BRK(c, checks) ==
    LET b    == [c EXCEPT !.sr = Insert(@, BREAK_FLAG)]
        n    == AddPc(b, 1, checks)                     \* pc + 1
        p    == push8(push16(b, n.pc), b.sr)
        i    == [p EXCEPT !.sr = Insert(@, INTERRUPT_DISABLE_FLAG)]
    IN  IF ~Ok(n) THEN n
        ELSE [SeenLe16(i, "vector", Plain(IRQ_VECTOR)) EXCEPT !.pc = GetLe16(i, Plain(IRQ_VECTOR))]

PLA(c) ==
    LET value == pop8value(c)
    IN  set_zn([pop8(c) EXCEPT !.ac = value], value)

PLP(c) == [pop8(c) EXCEPT !.sr = Insert(pop8value(c), UNUSED_ALWAYS_ON_FLAG)]

\* an RTI that steps over the byte at the return address, as RTS does
RTIAdvancesPc(c) ==
    LET s == [pop8(c) EXCEPT !.sr = pop8value(c)]
    IN  [pop16(s) EXCEPT !.pc = WrapAdd16(pop16value(s), 1)]

RTI(c) ==
    LET s == [pop8(c) EXCEPT !.sr = pop8value(c)]
    IN  [pop16(s) EXCEPT !.pc = pop16value(s)]

execute(c, ins, opd, checks) ==
    CASE ins = "LDA" -> Load(c, opd, "ac")
      [] ins = "LDX" -> Load(c, opd, "x")
      [] ins = "LDY" -> Load(c, opd, "y")
      [] ins = "STA" -> OperandSet(c, opd, c.ac)
      [] ins = "STX" -> OperandSet(c, opd, c.x)
      [] ins = "STY" -> OperandSet(c, opd, c.y)
      [] ins = "TAX" -> Transfer(c, "ac", "x")
      [] ins = "TAY" -> Transfer(c, "ac", "y")
      [] ins = "TXA" -> Transfer(c, "x", "ac")
      [] ins = "TYA" -> Transfer(c, "y", "ac")
      [] ins = "TSX" -> Transfer(c, "sp", "x")
      [] ins = "TXS" -> [c EXCEPT !.sp = c.x]
      [] ins = "PHA" -> push8(c, c.ac)
      [] ins = "PHP" -> push8(c, c.sr)
      [] ins = "PLA" -> PLA(c)
      [] ins = "PLP" -> PLP(c)
      [] ins = "AND" -> Logical(c, opd, And8(c.ac, OperandGet(c, opd)))
      [] ins = "EOR" -> Logical(c, opd, Xor8(c.ac, OperandGet(c, opd)))
      [] ins = "ORA" -> Logical(c, opd, Or8(c.ac, OperandGet(c, opd)))
      [] ins = "BIT" -> BIT(c, opd)
      [] ins = "ADC" -> ADC(c, opd)
      [] ins = "SBC" -> SBC(c, opd)
      [] ins = "CMP" -> Compare(c, opd, "ac")
      [] ins = "CPX" -> Compare(c, opd, "x")
      [] ins = "CPY" -> Compare(c, opd, "y")
      [] ins = "INC" -> IncDec(c, opd, 1)
      [] ins = "INX" -> IncDecReg(c, "x", 1)
      [] ins = "INY" -> IncDecReg(c, "y", 1)
      [] ins = "DEC" -> IncDec(c, opd, -1)
      [] ins = "DEX" -> IncDecReg(c, "x", -1)
      [] ins = "DEY" -> IncDecReg(c, "y", -1)
      [] ins = "ASL" -> ASL(c, opd)
      [] ins = "LSR" -> LSR(c, opd)
      [] ins = "ROL" -> ROL(c, opd)
      [] ins = "ROR" -> ROR(c, opd)
      [] ins = "JMP" -> JMP(c, opd)
      [] ins = "JSR" -> JSR(c, opd, checks)
      [] ins = "RTS" -> RTS(c, checks)
      [] ins = "BCC" -> Branch(c, opd, ~Contains(c.sr, CARRY_FLAG))
      [] ins = "BCS" -> Branch(c, opd, Contains(c.sr, CARRY_FLAG))
      [] ins = "BEQ" -> Branch(c, opd, Contains(c.sr, ZERO_FLAG))
      [] ins = "BMI" -> Branch(c, opd, Contains(c.sr, NEGATIVE_FLAG))
      [] ins = "BNE" -> Branch(c, opd, ~Contains(c.sr, ZERO_FLAG))
      [] ins = "BPL" -> Branch(c, opd, ~Contains(c.sr, NEGATIVE_FLAG))
      [] ins = "BVC" -> Branch(c, opd, ~Contains(c.sr, OVERFLOW_FLAG))
      [] ins = "BVS" -> Branch(c, opd, Contains(c.sr, OVERFLOW_FLAG))
      [] ins = "CLC" -> [c EXCEPT !.sr = Remove(@, CARRY_FLAG)]
      [] ins = "CLD" -> [c EXCEPT !.sr = Remove(@, DECIMAL_FLAG)]
      [] ins = "CLI" -> [c EXCEPT !.sr = Remove(@, INTERRUPT_DISABLE_FLAG)]
      [] ins = "CLV" -> [c EXCEPT !.sr = Remove(@, OVERFLOW_FLAG)]
      [] ins = "SEC" -> [c EXCEPT !.sr = Insert(@, CARRY_FLAG)]
      [] ins = "SED" -> [c EXCEPT !.sr = Insert(@, DECIMAL_FLAG)]
      [] ins = "SEI" -> [c EXCEPT !.sr = Insert(@, INTERRUPT_DISABLE_FLAG)]
      [] ins = "BRK" -> BRK(c, checks)
      [] ins = "NOP" -> c
      [] ins = "RTI" -> RTI(c)

(***************************************************************************)
(* Mos6502::next and Mos6502::next_instruction                             *)
(***************************************************************************)
\* the operand next_instruction reads at c.pc for an addressing mode
OperandAt(c, mode) ==
    [mode |-> mode,
     val  |-> CASE OperandSize(mode) = 0 -> 0
                [] OperandSize(mode) = 1 ->
                      IF mode = "Relative" THEN AsI8(Get(c, c.pc)) ELSE Get(c, c.pc)
                [] OperandSize(mode) = 2 -> GetLe16(c, Plain(c.pc))]

\* an operand fetch that advances PC by one byte whatever the operand's size
OperandFetchedOneByte(c, mode, checks) ==
    CASE OperandSize(mode) = 0 -> c
      [] OperandSize(mode) = 1 -> AddPc(Seen(c, "operand", c.pc), 1, checks)
      [] OperandSize(mode) = 2 -> AddPc(SeenLe16(c, "operand", Plain(c.pc)), 1, checks)

\* the CPU after next::<T>() for the operand: the reads, then pc += size_of::<T>()
OperandFetched(c, mode, checks) ==
    CASE OperandSize(mode) = 0 -> c
      [] OperandSize(mode) = 1 -> AddPc(Seen(c, "operand", c.pc), 1, checks)
      [] OperandSize(mode) = 2 -> AddPc(SeenLe16(c, "operand", Plain(c.pc)), 2, checks)

(***************************************************************************)
(* CPU::step for Mos6502                                                   *)
(***************************************************************************)
\* a reset that leaves the irq line latched
StepResetKeepsIrq(c) ==
    [SeenLe16(c, "vector", Plain(RESET_VECTOR)) EXCEPT
        !.sr = Insert(@, INTERRUPT_DISABLE_FLAG),
        !.pc = GetLe16(c, Plain(RESET_VECTOR)),
        !.reset = FALSE, !.nmi = FALSE,
        !.branch = "reset", !.cycles = 6]

\* a reset that leaves the nmi line latched
StepResetKeepsNmi(c) ==
    [SeenLe16(c, "vector", Plain(RESET_VECTOR)) EXCEPT
        !.sr = Insert(@, INTERRUPT_DISABLE_FLAG),
        !.pc = GetLe16(c, Plain(RESET_VECTOR)),
        !.reset = FALSE, !.irq = FALSE,
        !.branch = "reset", !.cycles = 6]

StepReset(c) ==
    [SeenLe16(c, "vector", Plain(RESET_VECTOR)) EXCEPT
        !.sr = Insert(@, INTERRUPT_DISABLE_FLAG),
        !.pc = GetLe16(c, Plain(RESET_VECTOR)),
        !.reset = FALSE, !.nmi = FALSE, !.irq = FALSE,
        !.branch = "reset", !.cycles = 6]

\* an NMI that sets I, as an IRQ does
StepNmiSetsI(c) ==
    LET p == push8(push16(c, c.pc), c.sr)
    IN  [SeenLe16(p, "vector", Plain(NMI_VECTOR)) EXCEPT
            !.sr = Insert(@, INTERRUPT_DISABLE_FLAG),
            !.pc = GetLe16(p, Plain(NMI_VECTOR)),
            !.nmi = FALSE,
            !.branch = "nmi", !.cycles = 7]

StepNmi(c) ==
    LET p == push8(push16(c, c.pc), c.sr)
    IN  [SeenLe16(p, "vector", Plain(NMI_VECTOR)) EXCEPT
            !.pc = GetLe16(p, Plain(NMI_VECTOR)),
            !.nmi = FALSE,
            !.branch = "nmi", !.cycles = 7]

\* an IRQ that leaves B as it finds it
StepIrqKeepsB(c, checks) ==
    LET b == Seen([c EXCEPT !.branch = "irq"], "read", c.pc)
        n == IF Get(c, c.pc) = BRK_OPCODE THEN AddPc(b, 1, checks) ELSE b
        p == push8(push16(n, n.pc), n.sr)
        i == [p EXCEPT !.sr = Insert(@, INTERRUPT_DISABLE_FLAG)]
    IN  Then(n, [SeenLe16(i, "vector", Plain(IRQ_VECTOR)) EXCEPT
                    !.pc = GetLe16(i, Plain(IRQ_VECTOR)),
                    !.irq = FALSE,
                    !.cycles = 7])

\* an IRQ that does not look for a BRK at PC
StepIrqNoSkip(c, checks) ==
    LET b == Seen([c EXCEPT !.sr = Remove(@, BREAK_FLAG), !.branch = "irq"], "read", c.pc)
        p == push8(push16(b, b.pc), b.sr)
        i == [p EXCEPT !.sr = Insert(@, INTERRUPT_DISABLE_FLAG)]
    IN  [SeenLe16(i, "vector", Plain(IRQ_VECTOR)) EXCEPT
            !.pc = GetLe16(i, Plain(IRQ_VECTOR)),
            !.irq = FALSE,
            !.cycles = 7]

StepIrq(c, checks) ==
    LET b == Seen([c EXCEPT !.sr = Remove(@, BREAK_FLAG), !.branch = "irq"], "read", c.pc)
        n == IF Get(c, c.pc) = BRK_OPCODE THEN AddPc(b, 1, checks) ELSE b
        p == push8(push16(n, n.pc), n.sr)
        i == [p EXCEPT !.sr = Insert(@, INTERRUPT_DISABLE_FLAG)]
    IN  Then(n, [SeenLe16(i, "vector", Plain(IRQ_VECTOR)) EXCEPT
                    !.pc = GetLe16(i, Plain(IRQ_VECTOR)),
                    !.irq = FALSE,
                    !.cycles = 7])

\* a step that takes an opcode it does not know for a two-cycle no-operation
StepInstructionSkipsIllegal(c, checks) ==
    LET old_pc == c.pc
        opcode == Get(c, old_pc)
        f      == AddPc(Seen([c EXCEPT !.branch = "instr"], "fetch", old_pc), 1, checks)
        entry  == OpcodeTable[opcode]
        opd    == OperandAt(f, entry[3])
        d      == OperandFetched(f, entry[3], checks)
        e      == execute(d, entry[2], opd, checks)
    IN  IF ~Ok(f) THEN f
        ELSE IF entry = NoInstruction THEN [f EXCEPT !.cycles = 2]
        ELSE Then(d, Then(e, [e EXCEPT !.cycles = entry[1]]))

\* a step that charges one more cycle when the instruction changed PC
StepInstructionBranchPenalty(c, checks) ==
    LET old_pc == c.pc
        opcode == Get(c, old_pc)
        f      == AddPc(Seen([c EXCEPT !.branch = "instr"], "fetch", old_pc), 1, checks)
        entry  == OpcodeTable[opcode]
        opd    == OperandAt(f, entry[3])
        d      == OperandFetched(f, entry[3], checks)
        e      == execute(d, entry[2], opd, checks)
    IN  IF ~Ok(f) THEN f
        ELSE IF entry = NoInstruction THEN Panic(Seen(f, "read", old_pc), "illegal opcode")
        ELSE Then(d, Then(e, [e EXCEPT !.cycles = entry[1] + (IF e.pc # d.pc THEN 1 ELSE 0)]))

StepInstruction(c, checks) ==
    LET old_pc == c.pc
        opcode == Get(c, old_pc)
        f      == AddPc(Seen([c EXCEPT !.branch = "instr"], "fetch", old_pc), 1, checks)
        entry  == OpcodeTable[opcode]
        opd    == OperandAt(f, entry[3])
        d      == OperandFetched(f, entry[3], checks)
        e      == execute(d, entry[2], opd, checks)
    IN  IF ~Ok(f) THEN f
        ELSE IF entry = NoInstruction THEN Panic(Seen(f, "read", old_pc), "illegal opcode")
        ELSE Then(d, Then(e, [e EXCEPT !.cycles = entry[1]]))

\* a sequencer that serves the NMI before the reset
stepNmiFirst(c, checks) ==
    IF c.nmi THEN StepNmi(c)
    ELSE IF c.reset THEN StepReset(c)
    ELSE IF c.irq /\ ~Contains(c.sr, INTERRUPT_DISABLE_FLAG) THEN StepIrq(c, checks)
    ELSE StepInstruction(c, checks)

\* a sequencer that serves the IRQ whatever I holds
stepUnmaskedIrq(c, checks) ==
    IF c.reset THEN StepReset(c)
    ELSE IF c.nmi THEN StepNmi(c)
    ELSE IF c.irq THEN StepIrq(c, checks)
    ELSE StepInstruction(c, checks)

step(c, checks) ==
    IF c.reset THEN StepReset(c)
    ELSE IF c.nmi THEN StepNmi(c)
    ELSE IF c.irq /\ ~Contains(c.sr, INTERRUPT_DISABLE_FLAG) THEN StepIrq(c, checks)
    ELSE StepInstruction(c, checks)

(***************************************************************************)
(* The RAM images and the initial states.                                  *)
(***************************************************************************)
Orgs       == {4096}                 \* 0x1000
LowBytes   == {64, 255}
HighBytes  == {2}

\* every opcode byte at the reset target, followed by two more bytes
Images == [org : Orgs, opc : Byte, lo : LowBytes, hi : HighBytes]

\* the registers, the lines and the byte at PC, as step() finds them
Entry ==
    [pc |-> pc, ac |-> ac, x |-> x, y |-> y, sr |-> sr, sp |-> sp,
     reset |-> reset, nmi |-> nmi, irq |-> irq, opcode |-> Get(This, pc)]

NoStepYet ==
    /\ branch = "none" /\ cycles = 0 /\ bus = <<>> /\ fault = "none" /\ steps = 0
    /\ calls = <<>>
    /\ port = [ddr |-> 0, dat |-> 0]

\* Mos6502::new over a RAM holding one of the images
Init ==
    /\ image \in Images
    /\ pc = 0 /\ ac = 0 /\ x = 0 /\ y = 0
    /\ sr = UNUSED_ALWAYS_ON_FLAG
    /\ sp = 0
    /\ mem = <<>>
    /\ reset = TRUE /\ nmi = FALSE /\ irq = FALSE
    /\ NoStepYet
    /\ pre = Entry

\* The set-up of the interrupt and stack tests: Mos6502::new, then pc, sr and
\* sp are set and the reset line is dropped.  The program at pc is one of the
\* stack, interrupt and flag instructions; JSR targets an RTS.
SetupOpcodes == {0, 64, 8, 40, 72, 104, 32, 96, 88, 120, 234}
                \* BRK RTI PHP PLP PHA PLA JSR RTS CLI SEI NOP
SetupSP      == {0, 46, 253, 254, 255}
SetupSR      == {32, 35, 36, 48, 255}
SetupImages  == [org : Orgs, opc : SetupOpcodes, lo : {48}, hi : {48}]

InitSetup ==
    /\ image \in SetupImages
    /\ pc = image.org
    /\ ac = 136 /\ x = 17 /\ y = 34
    /\ sr \in SetupSR
    /\ sp \in SetupSP
    /\ mem = <<>>
    /\ reset = FALSE /\ nmi = FALSE /\ irq = FALSE
    /\ NoStepYet
    /\ pre = Entry

(***************************************************************************)
(* The operations of the CPU.                                              *)
(***************************************************************************)
Observers == <<branch, cycles, bus, fault, steps, pre, calls, port>>
Registers == <<pc, ac, x, y, sr, sp>>

\* CPU::reset
Reset ==
    /\ fault = "none"
    /\ reset' = TRUE
    /\ UNCHANGED <<Registers, mem, image, nmi, irq, Observers>>

\* Mos6502::nmi
Nmi ==
    /\ fault = "none"
    /\ nmi' = TRUE
    /\ UNCHANGED <<Registers, mem, image, reset, irq, Observers>>

\* an irq() that flips the line
IrqToggles ==
    /\ fault = "none"
    /\ irq' = ~irq
    /\ UNCHANGED <<Registers, mem, image, reset, nmi, Observers>>

\* Mos6502::irq
Irq ==
    /\ fault = "none"
    /\ irq' = TRUE
    /\ UNCHANGED <<Registers, mem, image, reset, nmi, Observers>>

\* CPU::step
Step ==
    /\ fault = "none"
    /\ steps < MaxSteps
    /\ \E checks \in BOOLEAN :
          \E r \in {step(This, checks)} :
              /\ pc' = r.pc /\ ac' = r.ac /\ x' = r.x /\ y' = r.y
              /\ sr' = r.sr /\ sp' = r.sp /\ mem' = r.mem
              /\ reset' = r.reset /\ nmi' = r.nmi /\ irq' = r.irq
              /\ branch' = r.branch /\ cycles' = r.cycles /\ bus' = r.bus
              /\ fault' = r.fault
    /\ steps' = steps + 1
    /\ pre' = Entry
    /\ UNCHANGED <<image, calls, port>>

Next == Reset \/ Nmi \/ Irq \/ Step

\* from Mos6502::new
Spec == Init /\ [][Next]_vars

\* from the set-up of the interrupt and stack tests
SpecSetup == InitSetup /\ [][Next]_vars

(***************************************************************************)
(* The helpers called directly, as the unit tests call them: the CPU is    *)
(* built by Mos6502::new over a RAM, registers are set, and push, pop,     *)
(* Operand::addr or Instruction::execute is called without step().         *)
(***************************************************************************)
MaxCalls == 4

\* the RAM under the directly called helpers
RamImage == [org |-> 4096, opc |-> 234, lo |-> 48, hi |-> 48]

\* the CPU becomes r
Becomes(r) ==
    /\ pc' = r.pc /\ ac' = r.ac /\ x' = r.x /\ y' = r.y
    /\ sr' = r.sr /\ sp' = r.sp /\ mem' = r.mem
    /\ reset' = r.reset /\ nmi' = r.nmi /\ irq' = r.irq
    /\ branch' = r.branch /\ cycles' = r.cycles /\ bus' = r.bus
    /\ fault' = r.fault

\* one direct call: what was called, its argument, what it returned, SP on entry
Call(op, arg, ret, r) ==
    /\ fault = "none"
    /\ Len(calls) < MaxCalls
    /\ Becomes(r)
    /\ calls' = Append(calls, [op |-> op, arg |-> arg, ret |-> ret, sp |-> sp])
    /\ pre' = Entry
    /\ UNCHANGED <<image, steps, port>>

StackPointers == {0, 1, 2, 3, 4, 5, 127, 128, 250, 251, 252, 253, 254, 255}
PushBytes     == {18, 255}           \* 0x12, 0xff
PushWords     == {4660, 65280}       \* 0x1234, 0xff00

\* tests::stack_push_pop, stack_overflow, stack_overflow_word: new(), then cpu.sp = ...
InitStack ==
    /\ image = RamImage
    /\ pc = 0 /\ ac = 0 /\ x = 0 /\ y = 0
    /\ sr = UNUSED_ALWAYS_ON_FLAG
    /\ sp \in StackPointers
    /\ mem = <<>>
    /\ reset = TRUE /\ nmi = FALSE /\ irq = FALSE
    /\ NoStepYet
    /\ pre = Entry

\* cpu.push(v as u8)
CallPush8 == \E v \in PushBytes : Call("push8", v, 0, push8(This, v))

\* cpu.push(v as u16)
CallPush16 == \E v \in PushWords : Call("push16", v, 0, push16(This, v))

\* let value: u8 = cpu.pop()
CallPop8 == Call("pop8", 0, pop8value(This), pop8(This))

\* let value: u16 = cpu.pop()
CallPop16 == Call("pop16", 0, pop16value(This), pop16(This))

NextStack == CallPush8 \/ CallPush16 \/ CallPop8 \/ CallPop16

SpecStack == InitStack /\ [][NextStack]_vars

(***************************************************************************)
(* The addressing modes, through the instructions that use them: the       *)
(* operand bytes follow the opcode at PC and X and Y are set, as in        *)
(* tests::addressing_modes, and step() decodes and executes.               *)
(***************************************************************************)
\* JMP ($HHLL), LDA $LL,X, LDX $LL,Y, LDA ($LL,X) and LDA ($LL),Y with the
\* operand bytes on and around the page boundaries
OperandImages ==
    [org : Orgs,
     opc : {108, 181, 182, 161, 177},
     lo  : {0, 18, 127, 238, 240, 254, 255},
     hi  : {0, 1, 16, 192, 255}]

InitOperand ==
    /\ image \in OperandImages
    /\ pc = image.org
    /\ ac = 136
    /\ x \in {0, 1, 17, 255}
    /\ y \in {0, 1, 34, 255}
    /\ sr = UNUSED_ALWAYS_ON_FLAG
    /\ sp = 255
    /\ mem = <<>>
    /\ reset = FALSE /\ nmi = FALSE /\ irq = FALSE
    /\ NoStepYet
    /\ pre = Entry

SpecOperand == InitOperand /\ [][Step]_vars

(***************************************************************************)
(* The binary arithmetic, through ADC #m and SBC #m: every accumulator     *)
(* value and every operand byte, with the carry clear and set.             *)
(***************************************************************************)
\* ADC #m or SBC #m at PC; the byte behind it is no instruction
AluImages == [org : Orgs, opc : {105, 233}, lo : Byte, hi : {2}]

\* D is clear; C is clear with the other flags clear, and set with them set
InitAlu ==
    /\ image \in AluImages
    /\ pc = image.org
    /\ ac \in Byte
    /\ x = 17 /\ y = 34
    /\ sr \in {32, 247}
    /\ sp = 255
    /\ mem = <<>>
    /\ reset = FALSE /\ nmi = FALSE /\ irq = FALSE
    /\ NoStepYet
    /\ pre = Entry

SpecAlu == InitAlu /\ [][Step]_vars

(***************************************************************************)
(* The decoder, through step(): every opcode byte at PC, followed by an    *)
(* operand that is positive or negative as a branch offset and that, as    *)
(* the low byte of an absolute address, crosses a page when indexed.       *)
(***************************************************************************)
DecodeImages == [org : Orgs, opc : Byte, lo : {5, 251}, hi : {2}]

\* C, D and the flags N, V, Z are clear, or C and D are set, or N, V, Z are
InitDecode ==
    /\ image \in DecodeImages
    /\ pc = image.org
    /\ ac \in {0, 136}
    /\ x \in {17, 255}
    /\ y = 34
    /\ sr \in {32, 41, 226}
    /\ sp = 253
    /\ mem = <<>>
    /\ reset = FALSE /\ nmi = FALSE /\ irq = FALSE
    /\ NoStepYet
    /\ pre = Entry

SpecDecode == InitDecode /\ [][Step]_vars

(***************************************************************************)
(* The compares, through CMP #m, CPX #m, CPY #m and CMP $m: register and   *)
(* operand values on and around 0, $7F/$80 and $FF.                        *)
(***************************************************************************)
\* the byte a zero-page address holds is the address itself (data_for_addr)
CompareImages ==
    [org : Orgs, opc : {201, 224, 192, 197},
     lo : {0, 1, 2, 64, 85, 126, 127, 128, 129, 192, 254, 255}, hi : {2}]

\* C, Z, V and N are all clear or all set
InitCompare ==
    /\ image \in CompareImages
    /\ pc = image.org
    /\ ac \in {0, 1, 127, 128, 255}
    /\ x \in {0, 127, 128, 255}
    /\ y \in {1, 128, 254, 255}
    /\ sr \in {32, 227}
    /\ sp = 255
    /\ mem = <<>>
    /\ reset = FALSE /\ nmi = FALSE /\ irq = FALSE
    /\ NoStepYet
    /\ pre = Entry

SpecCompare == InitCompare /\ [][Step]_vars

(***************************************************************************)
(* The shifts and rotates, on the accumulator and on a zero-page byte:     *)
(* every operand value, with the carry clear and set.  The byte behind a   *)
(* one-byte shift is ROR A and the bytes behind a two-byte shift of $13    *)
(* are ROR $13, so that a ROL is followed by the ROR of the same operand.  *)
(***************************************************************************)
ShiftImages ==
    [org : Orgs, opc : {10, 74, 42, 106, 6, 70, 38, 102}, lo : {19, 106}, hi : {102}]

\* the byte stored at $13 is the complement of AC; C, Z, N are all clear or all set
InitShift ==
    /\ image \in ShiftImages
    /\ pc = image.org
    /\ ac \in Byte
    /\ x = 17 /\ y = 34
    /\ sr \in {32, 163}
    /\ sp = 255
    /\ mem = [a \in {19} |-> 255 - ac]
    /\ reset = FALSE /\ nmi = FALSE /\ irq = FALSE
    /\ NoStepYet
    /\ pre = Entry

SpecShift == InitShift /\ [][Step]_vars

(***************************************************************************)
(* What step() returns: every opcode byte at PC with any of the three      *)
(* lines latched before the step, an index register that does or does not  *)
(* carry an absolute address into the next page, and flags that make each  *)
(* branch taken or not taken.                                              *)
(***************************************************************************)
InitCycles ==
    /\ image \in DecodeImages
    /\ pc = image.org
    /\ ac = 136
    /\ x \in {17, 255}
    /\ y = 34
    /\ sr \in {32, 227}
    /\ sp = 253
    /\ mem = <<>>
    /\ reset \in BOOLEAN /\ nmi \in BOOLEAN /\ irq \in BOOLEAN
    /\ NoStepYet
    /\ pre = Entry

SpecCycles == InitCycles /\ [][Step]_vars

(***************************************************************************)
(* The branches and the absolute indexed loads: the eight branches and     *)
(* LDA $w,X, LDA $w,Y, LDX $w,Y at the bottom, in the middle and at the    *)
(* top of the address space, with offsets of both signs and index values   *)
(* that carry the address past $FFFF.                                      *)
(***************************************************************************)
BranchOpcodes == {16, 48, 80, 112, 144, 176, 208, 240}
                 \* BPL BMI BVC BVS BCC BCS BNE BEQ

BranchImages ==
    [org : {0, 4096, 65533},
     opc : BranchOpcodes \cup {189, 185, 190},
     lo  : {0, 51, 127, 128, 205, 255},
     hi  : {1, 255}]

\* C, Z, V and N are all clear or all set
InitBranch ==
    /\ image \in BranchImages
    /\ pc = image.org
    /\ ac = 136
    /\ x \in {0, 17, 255}
    /\ y \in {1, 34, 255}
    /\ sr \in {32, 227}
    /\ sp = 255
    /\ mem = <<>>
    /\ reset = FALSE /\ nmi = FALSE /\ irq = FALSE
    /\ NoStepYet
    /\ pre = Entry

SpecBranch == InitBranch /\ [][Step]_vars

(***************************************************************************)
(* The multi-byte accessors of Addressable, called directly on a RAM that  *)
(* covers the 16-bit address space.  A number of a Primitive type is an    *)
(* integer of its range; the model's integers are 32 bits wide and signed, *)
(* so a u32 is at most 2^31 - 1 here.  The host is little-endian, as the   *)
(* tests of number_to_be_bytes and number_to_le_bytes assume.              *)
(***************************************************************************)
MaxBusCalls == 2

\* Primitive::bytes and Primitive::is_signed
Primitives ==
    [u8  |-> [bytes |-> 1, signed |-> FALSE], i8  |-> [bytes |-> 1, signed |-> TRUE],
     u16 |-> [bytes |-> 2, signed |-> FALSE], i16 |-> [bytes |-> 2, signed |-> TRUE],
     u32 |-> [bytes |-> 4, signed |-> FALSE], i32 |-> [bytes |-> 4, signed |-> TRUE]]

\* rev_iter
Reverse(data) == [i \in 1..Len(data) |-> data[Len(data) + 1 - i]]

\* it.fold(0, |v, b| (v << 8) + b)
RECURSIVE FoldBytes(_)
FoldBytes(data) ==
    IF data = <<>> THEN 0
    ELSE FoldBytes(SubSeq(data, 1, Len(data) - 1)) * 256 + data[Len(data)]

\* number_from_bytes for as many bytes as T has: the fold, and for a signed
\* T the sign extension `(val << shift) as i64 >> shift`, which takes 2^bits
\* off a value whose top bit is set, that is 256 off its first byte
number_from_bytes(data, T) ==
    IF Primitives[T].signed /\ data[1] >= 128
    THEN FoldBytes(<<data[1] - 256>> \o SubSeq(data, 2, Len(data)))
    ELSE FoldBytes(data)

number_from_be_bytes(data, T) == number_from_bytes(data, T)

number_from_le_bytes(data, T) == number_from_bytes(Reverse(data), T)

\* number_to_le_bytes: the bytes of the value as they lie in memory (two's
\* complement, least significant first)
number_to_le_bytes(val, T) ==
    [i \in 1..Primitives[T].bytes |-> (val \div (256 ^ (i - 1))) % 256]

\* a number_to_be_bytes that hands out the bytes in host order
number_to_be_bytes_host_order(val, T) ==
    [i \in 1..Primitives[T].bytes |-> (val \div (256 ^ (i - 1))) % 256]

\* number_to_be_bytes: byte i is *ptr.offset(size - i - 1)
number_to_be_bytes(val, T) ==
    [i \in 1..Primitives[T].bytes |-> number_to_le_bytes(val, T)[Primitives[T].bytes + 1 - i]]

\* vec::from_fn(bytes, |i| self.getx(addr, i)): the bytes at addr.offset(i)
GetBytes(c, addr, T) == [i \in 1..Primitives[T].bytes |-> Get(c, Offset(addr, i - 1))]

\* the CPU's bus after those reads
RECURSIVE SeenBytes(_, _, _, _)
SeenBytes(c, kind, addr, n) ==
    IF n = 0 THEN c ELSE Seen(SeenBytes(c, kind, addr, n - 1), kind, Offset(addr, n - 1))

\* for (i, &b) in data.iter().enumerate() { self.setx(addr, i, b) }
RECURSIVE SetBytes(_, _, _)
SetBytes(c, addr, data) ==
    IF data = <<>> THEN c
    ELSE LET n == Len(data)
             a == Offset(addr, n - 1)
         IN  Seen(Set(SetBytes(c, addr, SubSeq(data, 1, n - 1)), a, data[n]), "write", a)

get_be(c, addr, T) == number_from_be_bytes(GetBytes(c, addr, T), T)

get_le(c, addr, T) == number_from_le_bytes(GetBytes(c, addr, T), T)

set_be(c, addr, T, val) == SetBytes(c, addr, number_to_be_bytes(val, T))

set_le(c, addr, T, val) == SetBytes(c, addr, number_to_le_bytes(val, T))

\* start addresses in the middle of the address space and next to its top
BusAddrs == {4660, 65534, 65535}

\* two values of each type: 0x12.., and one whose top byte is 0x98
BusValues ==
    [u8  |-> {18, 152},            i8  |-> {18, -104},
     u16 |-> {4660, 39030},        i16 |-> {4660, -26506},
     u32 |-> {305419896, 39030},   i32 |-> {305419896, -1737075662}]

\* Ram::new
InitBus ==
    /\ image = RamImage
    /\ pc = 0 /\ ac = 0 /\ x = 0 /\ y = 0
    /\ sr = UNUSED_ALWAYS_ON_FLAG
    /\ sp = 0
    /\ mem = <<>>
    /\ reset = TRUE /\ nmi = FALSE /\ irq = FALSE
    /\ NoStepYet
    /\ pre = Entry

\* the last direct call was a store
Stored == calls # <<>> /\ calls[Len(calls)].op \in {"set_be", "set_le"}

\* bus.set_be(a, v)
CallSetBe ==
    /\ ~Stored /\ Len(calls) < MaxBusCalls
    /\ \E a \in BusAddrs, T \in DOMAIN BusValues :
          \E v \in BusValues[T] :
              Call("set_be", [addr |-> a, type |-> T, val |-> v], 0, set_be(This, a, T, v))

\* bus.set_le(a, v)
CallSetLe ==
    /\ ~Stored /\ Len(calls) < MaxBusCalls
    /\ \E a \in BusAddrs, T \in DOMAIN BusValues :
          \E v \in BusValues[T] :
              Call("set_le", [addr |-> a, type |-> T, val |-> v], 0, set_le(This, a, T, v))

\* bus.get_be::<T>(a) for the a and T of the set_be before it
CallGetBe ==
    /\ Stored /\ calls[Len(calls)].op = "set_be" /\ Len(calls) < MaxBusCalls
    /\ LET last == calls[Len(calls)].arg
       IN  Call("get_be", [addr |-> last.addr, type |-> last.type, val |-> 0],
                get_be(This, last.addr, last.type),
                SeenBytes(This, "read", last.addr, Primitives[last.type].bytes))

\* bus.get_le::<T>(a) for the a and T of the set_le before it
CallGetLe ==
    /\ Stored /\ calls[Len(calls)].op = "set_le" /\ Len(calls) < MaxBusCalls
    /\ LET last == calls[Len(calls)].arg
       IN  Call("get_le", [addr |-> last.addr, type |-> last.type, val |-> 0],
                get_le(This, last.addr, last.type),
                SeenBytes(This, "read", last.addr, Primitives[last.type].bytes))

NextBus == CallSetBe \/ CallSetLe \/ CallGetBe \/ CallGetLe

SpecBus == InitBus /\ [][NextBus]_vars

(***************************************************************************)
(* Address arithmetic, called directly: a Masked address is made and       *)
(* successive() is taken of it, then offset_masked, offset and the          *)
(* iterator's next are called on the address reached so far.               *)
(***************************************************************************)
AddressValues == {0, 4660, 4862, 4863, 4864, 65535}    \* 0x0000 0x1234 0x12fe 0x12ff 0x1300 0xffff
AddressMasks  == {0, 255, 65280, 65520, 65535}         \* 0x0000 0x00ff 0xff00 0xfff0 0xffff
AddressOffsets == {-1, 5}

\* Masked(a, m).successive()
InitAddress ==
    /\ image = RamImage
    /\ pc = 0 /\ ac = 0 /\ x = 0 /\ y = 0
    /\ sr = UNUSED_ALWAYS_ON_FLAG
    /\ sp = 0
    /\ mem = <<>>
    /\ reset = TRUE /\ nmi = FALSE /\ irq = FALSE
    /\ branch = "none" /\ cycles = 0 /\ bus = <<>> /\ fault = "none" /\ steps = 0
    /\ port = [ddr |-> 0, dat |-> 0]
    /\ \E a \in AddressValues, m \in AddressMasks :
          calls = <<[op |-> "successive", arg |-> 0, ret |-> Masked(a, m), sp |-> 0]>>
    /\ pre = Entry

\* the address the calls have reached
Reached == calls[Len(calls)].ret

\* addr.offset_masked(n, mask) on the plain address, with the mask as argument
CallOffsetMasked ==
    \E n \in AddressOffsets :
        Call("offset_masked", n,
             Masked(OffsetMasked(Reached.addr, n, Reached.mask), Reached.mask), This)

\* Masked(addr, mask).offset(n)
CallMaskedOffset ==
    \E n \in AddressOffsets : Call("offset", n, MaskedOffset(Reached, n), This)

\* it.next() of the iterator: the successor replaces the address
CallMaskedNext == Call("next", 1, MaskedNext(Reached), This)

NextAddress == CallOffsetMasked \/ CallMaskedOffset \/ CallMaskedNext

SpecAddress == InitAddress /\ [][NextAddress]_vars

(***************************************************************************)
(* The memories of mem/: Ram, Rom and SharedMemory, called directly as     *)
(* their unit tests call them.  Here mem holds the memory object, image    *)
(* the bytes it was created with and calls the accesses made so far.       *)
(***************************************************************************)
MaxAccesses == 3

\* one get, set, capacity or clone: what was called, its argument, what it
\* returned, the memory object afterwards and whether the call panicked
Access(op, arg, ret, m, f) ==
    /\ fault = "none"
    /\ Len(calls) < MaxAccesses
    /\ mem' = m
    /\ fault' = f
    /\ calls' = Append(calls, [op |-> op, arg |-> arg, ret |-> ret, sp |-> sp])
    /\ UNCHANGED <<Registers, image, reset, nmi, irq, branch, cycles, bus, steps, pre, port>>

\* no CPU is built over these memories
NoCpu ==
    /\ pc = 0 /\ ac = 0 /\ x = 0 /\ y = 0 /\ sr = UNUSED_ALWAYS_ON_FLAG /\ sp = 0
    /\ reset = FALSE /\ nmi = FALSE /\ irq = FALSE
    /\ NoStepYet
    /\ pre = <<>>

\* Ram::with_capacity: one byte for each address of 0..last_addr
RamWithCapacity(last_addr, bytes) == [data |-> bytes, last_addr |-> last_addr]

\* Ram::capacity
RamCapacity(ram) == Cardinality(DOMAIN ram.data)

\* Ram::get: the byte returned, or the panic
RamGet(ram, addr) ==
    IF addr > ram.last_addr
    THEN [fault |-> "ram", ret |-> 0]
    ELSE [fault |-> "none", ret |-> ram.data[addr]]

\* a set that stores beyond last_addr at the address modulo the capacity
RamSetWraps(ram, addr, data) ==
    [fault |-> "none",
     mem   |-> [ram EXCEPT !.data[addr % Cardinality(DOMAIN ram.data)] = data]]

\* Ram::set: the RAM afterwards, or the panic
RamSet(ram, addr, data) ==
    IF addr > ram.last_addr
    THEN [fault |-> "ram", mem |-> ram]
    ELSE [fault |-> "none", mem |-> [ram EXCEPT !.data[addr] = data]]

RamLasts    == {0, 2}
RandomBytes == {0, 255}
RamAddrs    == {0, 2, 3, 65535}
RamData     == {85, 170}             \* 0x55, 0xaa

\* let mut memory: Ram<u16> = Ram::with_capacity(last_addr), filled at random
InitRam ==
    /\ \E last_addr \in RamLasts :
          /\ image \in [0..last_addr -> RandomBytes]
          /\ mem = RamWithCapacity(last_addr, image)
    /\ NoCpu

\* memory.get(addr)
CallRamGet ==
    \E addr \in RamAddrs :
        \E r \in {RamGet(mem, addr)} : Access("get", <<addr>>, r.ret, mem, r.fault)

\* memory.set(addr, data)
CallRamSet ==
    \E addr \in RamAddrs, data \in RamData :
        \E r \in {RamSet(mem, addr, data)} : Access("set", <<addr, data>>, 0, r.mem, r.fault)

\* memory.capacity()
CallRamCapacity == Access("capacity", <<>>, RamCapacity(mem), mem, "none")

NextRam == CallRamGet \/ CallRamSet \/ CallRamCapacity

SpecRam == InitRam /\ [][NextRam]_vars

\* Rom::new: the bytes of the file, which is not empty; last_addr = len - 1
RomNew(bytes) == [data |-> bytes, last_addr |-> Cardinality(DOMAIN bytes) - 1]

\* Rom::capacity
RomCapacity(rom) == Cardinality(DOMAIN rom.data)

\* Rom::get: the byte returned, or the panic
RomGet(rom, addr) ==
    IF addr > rom.last_addr
    THEN [fault |-> "rom", ret |-> 0]
    ELSE [fault |-> "none", ret |-> rom.data[addr]]

\* a set that stores the byte, as a RAM does
RomSetStores(rom, addr, data) == RamSet(rom, addr, data)

\* Rom::set: a warning is logged, whatever the address
RomSet(rom, addr, data) == [fault |-> "none", mem |-> rom]

\* files of one and of three bytes
RomFiles == UNION {[0..(n - 1) -> {85, 96}] : n \in {1, 3}}

\* let mut memory: Rom<u16> = Rom::new(path)
InitRom ==
    /\ image \in RomFiles
    /\ mem = RomNew(image)
    /\ NoCpu

\* memory.get(addr)
CallRomGet ==
    \E addr \in RamAddrs :
        \E r \in {RomGet(mem, addr)} : Access("get", <<addr>>, r.ret, mem, r.fault)

\* memory.set(addr, data)
CallRomSet ==
    \E addr \in RamAddrs, data \in RamData :
        \E r \in {RomSet(mem, addr, data)} : Access("set", <<addr, data>>, 0, r.mem, r.fault)

\* memory.capacity()
CallRomCapacity == Access("capacity", <<>>, RomCapacity(mem), mem, "none")

NextRom == CallRomGet \/ CallRomSet \/ CallRomCapacity

SpecRom == InitRom /\ [][NextRom]_vars

\* RefCell: the borrows of a cell that are live, any number of immutable ones
\* or a mutable one
NotBorrowed == [readers |-> 0, writer |-> FALSE]

\* test::TestMemory { mem: [0, ..256] } after mem.set(0x12, 0x34)
TestMemory == [a \in Byte |-> IF a = 18 THEN 52 ELSE 0]

\* SharedMemory::new: one handle to a new cell that owns the memory
SharedNew(m) == [cells |-> <<[value |-> m, borrow |-> NotBorrowed]>>, handles |-> <<1>>]

\* a clone that owns a copy of the memory
SharedCloneCopies(sm, h) ==
    [cells   |-> Append(sm.cells, sm.cells[sm.handles[h]]),
     handles |-> Append(sm.handles, Len(sm.cells) + 1)]

\* SharedMemory::clone: another handle to the cell of handle h
SharedClone(sm, h) == [sm EXCEPT !.handles = Append(@, sm.handles[h])]

\* a get that does not give its borrow back
SharedGetKeepsBorrow(sm, h, addr) ==
    LET id   == sm.handles[h]
        cell == sm.cells[id]
    IN  IF cell.borrow.writer
        THEN [fault |-> "borrow", ret |-> 0, mem |-> sm]
        ELSE [fault |-> "none", ret |-> cell.value[addr],
              mem |-> [sm EXCEPT !.cells[id].borrow.readers = @ + 1]]

\* SharedMemory::get: with() borrows the cell, the closure reads the memory
\* and the borrow ends with the closure
SharedGet(sm, h, addr) ==
    LET id       == sm.handles[h]
        cell     == sm.cells[id]
        borrowed == [sm EXCEPT !.cells[id].borrow.readers = @ + 1]
    IN  IF cell.borrow.writer
        THEN [fault |-> "borrow", ret |-> 0, mem |-> sm]
        ELSE [fault |-> "none", ret |-> borrowed.cells[id].value[addr],
              mem |-> [borrowed EXCEPT !.cells[id].borrow.readers = @ - 1]]

\* SharedMemory::set: with_mut() borrows the cell mutably, the closure writes
\* the memory and the borrow ends with the closure
SharedSet(sm, h, addr, data) ==
    LET id       == sm.handles[h]
        cell     == sm.cells[id]
        borrowed == [sm EXCEPT !.cells[id].borrow.writer = TRUE]
        written  == [borrowed EXCEPT !.cells[id].value[addr] = data]
    IN  IF cell.borrow # NotBorrowed
        THEN [fault |-> "borrow", mem |-> sm]
        ELSE [fault |-> "none", mem |-> [written EXCEPT !.cells[id].borrow.writer = FALSE]]

SharedAddrs == {18, 86}              \* 0x12, 0x56
SharedData  == {120, 188}            \* 0x78, 0xbc

\* let mut shmem1 = SharedMemory::new(mem)
InitShared ==
    /\ image = TestMemory
    /\ mem = SharedNew(image)
    /\ NoCpu

\* shmem.get(addr) through one of the handles
CallSharedGet ==
    \E h \in DOMAIN mem.handles, addr \in SharedAddrs :
        \E r \in {SharedGet(mem, h, addr)} : Access("get", <<addr, 0, h>>, r.ret, r.mem, r.fault)

\* shmem.set(addr, data) through one of the handles
CallSharedSet ==
    \E h \in DOMAIN mem.handles, addr \in SharedAddrs, data \in SharedData :
        \E r \in {SharedSet(mem, h, addr, data)} :
            Access("set", <<addr, data, h>>, 0, r.mem, r.fault)

\* let mut shmem2 = shmem1.clone()
CallSharedClone ==
    \E h \in DOMAIN mem.handles :
        Access("clone", <<0, 0, h>>, Len(mem.handles) + 1, SharedClone(mem, h), "none")

NextShared == CallSharedGet \/ CallSharedSet \/ CallSharedClone

SpecShared == InitShared /\ [][NextShared]_vars

(***************************************************************************)
(* The Mos6510: a Mos6502 core and the two registers of the processor      *)
(* port.  The core is the CPU of the variables above and port holds the    *)
(* two registers.                                                          *)
(***************************************************************************)
\* Mos6510::new
Mos6510New(c) == [cpu |-> c, port_ddr |-> 0, port_dat |-> 0]

\* CPU::reset for Mos6510
Mos6510Reset(m) == [m EXCEPT !.cpu.reset = TRUE]

\* Mos6510::nmi
Mos6510Nmi(m) == [m EXCEPT !.cpu.nmi = TRUE]

\* Mos6510::irq
Mos6510Irq(m) == [m EXCEPT !.cpu.irq = TRUE]

\* a step whose store to $0001 stays in the port data register
Mos6510StepKeepsPort(m, checks) ==
    LET r == step(m.cpu, checks)
    IN  IF <<"write", 1>> \in {r.bus[i] : i \in DOMAIN r.bus}
        THEN [m EXCEPT !.cpu = [r EXCEPT !.mem = m.cpu.mem], !.port_dat = Get(r, 1)]
        ELSE [m EXCEPT !.cpu = r]

\* CPU::step for Mos6510: the step of the core, whose cycles it returns
Mos6510Step(m, checks) == [m EXCEPT !.cpu = step(m.cpu, checks)]

\* the Mos6510 as a value, with the observers of its core cleared for the
\* call that follows
ThisMos6510 == [cpu |-> This, port_ddr |-> port.ddr, port_dat |-> port.dat]

\* the Mos6510 becomes m
BecomesMos6510(m) ==
    /\ Becomes(m.cpu)
    /\ port' = [ddr |-> m.port_ddr, dat |-> m.port_dat]

\* LDA, STA with a zero-page or an absolute operand of $0000 or $0001, NOP
\* and BRK at the reset target
PortImages == [org : Orgs, opc : {165, 133, 173, 141, 234, 0}, lo : {0, 1}, hi : {0}]

\* Mos6510::new(mem)
InitPort ==
    /\ image \in PortImages
    /\ \E m \in {Mos6510New([pc |-> 0, ac |-> 0, x |-> 0, y |-> 0,
                             sr |-> UNUSED_ALWAYS_ON_FLAG, sp |-> 0,
                             reset |-> TRUE, nmi |-> FALSE, irq |-> FALSE])} :
          /\ pc = m.cpu.pc /\ ac = m.cpu.ac /\ x = m.cpu.x /\ y = m.cpu.y
          /\ sr = m.cpu.sr /\ sp = m.cpu.sp
          /\ reset = m.cpu.reset /\ nmi = m.cpu.nmi /\ irq = m.cpu.irq
          /\ port = [ddr |-> m.port_ddr, dat |-> m.port_dat]
    /\ mem = <<>>
    /\ NoStepYet
    /\ pre = Entry

\* cpu.reset()
ResetMos6510 ==
    /\ fault = "none"
    /\ BecomesMos6510(Mos6510Reset(ThisMos6510))
    /\ UNCHANGED <<image, steps, pre, calls>>

\* cpu.nmi()
NmiMos6510 ==
    /\ fault = "none"
    /\ BecomesMos6510(Mos6510Nmi(ThisMos6510))
    /\ UNCHANGED <<image, steps, pre, calls>>

\* cpu.irq()
IrqMos6510 ==
    /\ fault = "none"
    /\ BecomesMos6510(Mos6510Irq(ThisMos6510))
    /\ UNCHANGED <<image, steps, pre, calls>>

\* cpu.step()
StepMos6510 ==
    /\ fault = "none"
    /\ steps < MaxSteps
    /\ \E checks \in BOOLEAN :
          \E m \in {Mos6510Step(ThisMos6510, checks)} : BecomesMos6510(m)
    /\ steps' = steps + 1
    /\ pre' = Entry
    /\ UNCHANGED <<image, calls>>

NextPort == ResetMos6510 \/ NmiMos6510 \/ IrqMos6510 \/ StepMos6510

SpecPort == InitPort /\ [][NextPort]_vars

(***************************************************************************)
(* The top of the address space, through step(): BRK, JSR, RTS, NOP,       *)
(* LDA #m and LDA $HHLL in the last three bytes, with $FFFF on the stack   *)
(* for the RTS and the IRQ line latched or not.                            *)
(***************************************************************************)
WrapImages ==
    [org : {65533, 65534, 65535}, opc : {0, 32, 96, 234, 169, 173}, lo : {0, 255}, hi : {255}]

InitWrap ==
    /\ image \in WrapImages
    /\ pc = image.org
    /\ ac = 136 /\ x = 17 /\ y = 34
    /\ sr = UNUSED_ALWAYS_ON_FLAG
    /\ sp = 253
    /\ mem = [a \in {510, 511} |-> 255]
    /\ reset = FALSE /\ nmi = FALSE /\ irq \in BOOLEAN
    /\ NoStepYet
    /\ pre = Entry

SpecWrap == InitWrap /\ [][Step]_vars

(***************************************************************************)
(* The properties of the interrupt sequencer, the status register and the  *)
(* stack.                                                                  *)
(***************************************************************************)
(***************************************************************************)
(* Vocabulary of the properties.  An unprimed variable is the state on     *)
(* entry to a step() and a primed one the state it leaves.                 *)
(***************************************************************************)
StepTaken == steps' = steps + 1

Completed == fault' = "none"

\* the byte the RAM holds at an address, on entry to a step and after it
MemAt(addr) == Get(This, addr)

MemAfter(addr) == IF addr \in DOMAIN mem' THEN mem'[addr] ELSE ImageByte(image, addr)

\* the little-endian word at an address and the address after it
WordAt(addr) == MemAt(addr) + 256 * MemAt((addr + 1) % 65536)

\* $0100 + (s mod 256)
StackSlot(s) == 256 + (s % 256)

InterruptsEnabled == ~Contains(sr, INTERRUPT_DISABLE_FLAG)

\* the branch the sequencer must take for the lines and the I flag on entry
Due ==
    IF reset THEN "reset"
    ELSE IF nmi THEN "nmi"
    ELSE IF irq /\ InterruptsEnabled THEN "irq"
    ELSE "instr"

ExecutesAt(opcode) == StepTaken /\ Due = "instr" /\ MemAt(pc) = opcode

\* C1: each step() takes exactly one of four branches, chosen by priority:
\* reset if the reset line is latched, else NMI if the nmi line is latched,
\* else IRQ if the irq line is latched and I is clear, else one instruction
\* is fetched at PC and executed; a reset or interrupt branch fetches no
\* opcode and no operand.
StepPriority ==
    [][StepTaken =>
          /\ branch' = Due
          /\ branch' # "instr" =>
                \A i \in 1..Len(bus') : bus'[i][1] \notin {"fetch", "operand"}
          /\ branch' = "instr" =>
                /\ Len(bus') >= 1
                /\ bus'[1] = <<"fetch", pc>>
                /\ \A i \in 2..Len(bus') : bus'[i][1] # "fetch"]_vars

\* an NMI was serviced although an IRQ was latched with I clear, and nothing was fetched
StepPriorityWitness ==
    /\ branch = "nmi"
    /\ pre.nmi /\ pre.irq /\ ~pre.reset
    /\ ~Contains(pre.sr, INTERRUPT_DISABLE_FLAG)
    /\ irq /\ ~nmi
    /\ \A i \in 1..Len(bus) : bus[i][1] \notin {"fetch", "operand"}

\* C2: a step() entered with the reset line latched sets I, loads PC with the
\* little-endian word at $FFFC/$FFFD, clears the reset, nmi and irq lines and
\* returns 6; AC, X, Y, SP, the other bits of SR and the memory are unchanged.
ResetService ==
    [][StepTaken /\ reset =>
          /\ sr' = Or8(sr, INTERRUPT_DISABLE_FLAG)
          /\ pc' = MemAt(65532) + 256 * MemAt(65533)
          /\ ~reset' /\ ~nmi' /\ ~irq'
          /\ cycles' = 6
          /\ fault' = "none"
          /\ UNCHANGED <<ac, x, y, sp, mem>>]_vars

\* a reset was serviced with NMI and IRQ latched and I clear
ResetServiceWitness ==
    /\ branch = "reset" /\ cycles = 6
    /\ pre.reset /\ pre.nmi /\ pre.irq
    /\ ~Contains(pre.sr, INTERRUPT_DISABLE_FLAG)
    /\ Contains(sr, INTERRUPT_DISABLE_FLAG)
    /\ pc = image.org /\ pre.pc = image.org
    /\ pre.sp = 253 /\ sp = 253
    /\ ~reset /\ ~nmi /\ ~irq

\* C3: a step() entered with the nmi line latched and the reset line not,
\* with SP = s, stores the high byte of PC at $0100+s, the low byte at
\* $0100+((s-1) mod 256) and SR at $0100+((s-2) mod 256), leaves SP =
\* (s-3) mod 256, loads PC with the word at $FFFA/$FFFB, clears only the nmi
\* line and returns 7; SR is unchanged, whether or not I is set.
NmiService ==
    [][StepTaken /\ nmi /\ ~reset =>
          /\ MemAfter(StackSlot(sp)) = pc \div 256
          /\ MemAfter(StackSlot(sp - 1)) = pc % 256
          /\ MemAfter(StackSlot(sp - 2)) = sr
          /\ sp' = (sp - 3) % 256
          /\ pc' = MemAt(65530) + 256 * MemAt(65531)
          /\ ~nmi' /\ irq' = irq /\ reset' = reset
          /\ cycles' = 7
          /\ fault' = "none"
          /\ sr' = sr
          /\ UNCHANGED <<ac, x, y>>]_vars

\* an NMI was serviced with I set and the stack pointer wrapping from $00
NmiServiceWitness ==
    /\ branch = "nmi" /\ cycles = 7
    /\ Contains(pre.sr, INTERRUPT_DISABLE_FLAG)
    /\ pre.sp = 0 /\ sp = 253
    /\ pre.irq /\ irq
    /\ pc = NmiHandler
    /\ 256 \in DOMAIN mem /\ mem[256] = pre.pc \div 256
    /\ 511 \in DOMAIN mem /\ mem[511] = pre.pc % 256
    /\ 510 \in DOMAIN mem /\ mem[510] = pre.sr

\* the return address an IRQ pushes: past a BRK opcode at PC, else PC
IrqReturn == IF MemAt(pc) = 0 THEN (pc + 1) % 65536 ELSE pc

\* C4: a step() that services an IRQ clears B in SR, pushes the return PC
\* and then SR (the pushed SR has B = 0 and I = 0), then sets I, loads PC
\* with the word at $FFFE/$FFFF, clears the irq line, leaves SP three lower
\* and returns 7.
IrqService ==
    [][StepTaken /\ Due = "irq" /\ Completed =>
          /\ MemAfter(StackSlot(sp)) = IrqReturn \div 256
          /\ MemAfter(StackSlot(sp - 1)) = IrqReturn % 256
          /\ MemAfter(StackSlot(sp - 2)) = And8(sr, 255 - BREAK_FLAG)
          /\ ~Contains(MemAfter(StackSlot(sp - 2)), BREAK_FLAG)
          /\ ~Contains(MemAfter(StackSlot(sp - 2)), INTERRUPT_DISABLE_FLAG)
          /\ sr' = Or8(And8(sr, 255 - BREAK_FLAG), INTERRUPT_DISABLE_FLAG)
          /\ pc' = MemAt(65534) + 256 * MemAt(65535)
          /\ ~irq' /\ nmi' = nmi /\ reset' = reset
          /\ sp' = (sp - 3) % 256
          /\ cycles' = 7
          /\ UNCHANGED <<ac, x, y>>]_vars

\* an IRQ was serviced with B set on entry: B is clear and I set afterwards
IrqServiceWitness ==
    /\ branch = "irq" /\ cycles = 7 /\ fault = "none"
    /\ Contains(pre.sr, BREAK_FLAG)
    /\ ~Contains(sr, BREAK_FLAG)
    /\ Contains(sr, INTERRUPT_DISABLE_FLAG)
    /\ pre.sp = 255 /\ sp = 252
    /\ 509 \in DOMAIN mem /\ mem[509] = pre.sr - BREAK_FLAG
    /\ pc = IrqHandler
    /\ ~irq

\* C5: an IRQ is never serviced by a step() entered with I set: the irq line
\* stays latched through such steps (and through an NMI service), and the
\* IRQ is serviced by the first later step() entered with I clear and
\* neither the reset nor the nmi line latched.
IrqMasking ==
    [][StepTaken /\ irq /\ ~reset =>
          /\ ~InterruptsEnabled =>
                /\ branch' = (IF nmi THEN "nmi" ELSE "instr")
                /\ irq'
          /\ nmi => branch' = "nmi" /\ irq'
          /\ (InterruptsEnabled /\ ~nmi) =>
                /\ branch' = "irq"
                /\ Completed => ~irq' /\ pc' = WordAt(IRQ_VECTOR)]_vars

\* CLI executed while an IRQ was latched: the IRQ is still latched, I is now clear
IrqMaskingWitness ==
    /\ branch = "instr" /\ fault = "none"
    /\ pre.irq /\ ~pre.reset /\ ~pre.nmi
    /\ Contains(pre.sr, INTERRUPT_DISABLE_FLAG)
    /\ pre.opcode = 88
    /\ ~Contains(sr, INTERRUPT_DISABLE_FLAG)
    /\ irq /\ ~reset /\ ~nmi

\* C6: when an IRQ is serviced and the byte at PC is $00 (BRK), PC+1 is
\* pushed as the return address instead of PC, the BRK is not executed (B
\* stays clear), and an RTI executed at the handler returns to the old PC+1;
\* with any other byte at PC the pushed return address is PC.
IrqSkipsBrk ==
    [][StepTaken =>
          /\ (Due = "irq" /\ Completed) =>
                /\ MemAfter(StackSlot(sp - 1)) + 256 * MemAfter(StackSlot(sp))
                      = (IF MemAt(pc) = 0 THEN pc + 1 ELSE pc)
                /\ ~Contains(sr', BREAK_FLAG)
                /\ bus'[1] = <<"read", pc>>
                /\ \A i \in 1..Len(bus') : bus'[i][1] # "fetch"
          /\ (branch = "irq" /\ Due = "instr" /\ MemAt(pc) = RTI_OPCODE /\ Completed) =>
                /\ pc' = (IF pre.opcode = 0 THEN pre.pc + 1 ELSE pre.pc)
                /\ sp' = pre.sp
                /\ ~Contains(sr', BREAK_FLAG)]_vars

\* an IRQ arrived with BRK at PC, and the handler's RTI returned past the BRK
IrqSkipsBrkWitness ==
    /\ steps = 2 /\ branch = "instr" /\ fault = "none"
    /\ image.opc = 0
    /\ pre.pc = IrqHandler /\ pre.opcode = RTI_OPCODE
    /\ pc = image.org + 1
    /\ ~Contains(sr, BREAK_FLAG)
    /\ mem[StackSlot(sp - 1)] + 256 * mem[StackSlot(sp)] = image.org + 1

\* C7: bit 5 of SR is 1 in every state reachable from Mos6502::new.
UnusedFlagAlwaysOn == Contains(sr, UNUSED_ALWAYS_ON_FLAG)

\* the byte on top of the stack, which a pull reads
StackTop == MemAt(StackSlot(sp + 1))

\* C8: PLP leaves SR = b | $20 for the popped byte b; RTI leaves SR = b | $20
\* and then PC = the popped word, with no +1; PLP raises SP by 1, RTI by 3.
PullForcesUnusedFlag ==
    [][StepTaken =>
          /\ (ExecutesAt(40) /\ Completed) =>
                /\ sr' = Or8(StackTop, 32)
                /\ sp' = (sp + 1) % 256
          /\ (ExecutesAt(64) /\ Completed) =>
                /\ sr' = Or8(StackTop, 32)
                /\ pc' = MemAt(StackSlot(sp + 2)) + 256 * MemAt(StackSlot(sp + 3))
                /\ sp' = (sp + 3) % 256]_vars

\* C9: the byte PHP pushes has bit 5 = 1 and bit 4 (B) = 1 whatever SR
\* holds; its other six bits equal those of SR, and SR is unchanged.
PhpPushesBreakSet ==
    [][(ExecutesAt(8) /\ Completed) =>
          /\ Contains(MemAfter(StackSlot(sp)), UNUSED_ALWAYS_ON_FLAG)
          /\ Contains(MemAfter(StackSlot(sp)), BREAK_FLAG)
          /\ And8(MemAfter(StackSlot(sp)), 207) = And8(sr, 207)
          /\ sr' = sr]_vars

\* the instructions and interrupt services that touch no memory but the stack
StackOnly ==
    \/ branch \in {"nmi", "irq"}
    \/ branch = "instr" /\ pre.opcode \in {0, 8, 32, 72}

\* C10: every bus address a stack push or pop reads or writes lies in
\* $0100..$01FF, for every value of SP: the stack never leaves page 1.
StackStaysInPage ==
    /\ \A i \in 1..Len(bus) :
          bus[i][1] \in {"push", "pop"} => bus[i][2] \in 256..511
    /\ (steps = 1 /\ StackOnly) => DOMAIN mem \subseteq 256..511

\* a word was pushed with SP = $00: its low byte went to $01FF, its high byte to $0100
StackStaysInPageWitness ==
    /\ pre.sp = 0 /\ sp = 253
    /\ Len(bus) >= 3
    /\ bus[1] = <<"push", 511>>
    /\ bus[2] = <<"push", 256>>
    /\ bus[3] = <<"push", 510>>
    /\ DOMAIN mem = {256, 510, 511}

(***************************************************************************)
(* The properties of the stack helpers.                                    *)
(***************************************************************************)
\* SP after the i-th direct call
SpAfter(i) == IF i = Len(calls) THEN sp ELSE calls[i + 1].sp

IsPush(c) == c.op \in {"push8", "push16"}

\* the pop of the width of a push
PopOf(c) == IF c.op = "push8" THEN "pop8" ELSE "pop16"

\* C11: for every SP and every 8-bit or 16-bit value v, push(v) followed at
\* once by a pop of the same width returns v and restores SP; pushes and
\* pops of matching widths are last-in-first-out: push a, push b, pop, pop
\* yields b, then a, and SP as before the first push.
PushPopRoundTrip ==
    \A i \in 1..Len(calls) :
        /\ (i + 1 <= Len(calls) /\ IsPush(calls[i]) /\ calls[i + 1].op = PopOf(calls[i])) =>
              /\ calls[i + 1].ret = calls[i].arg
              /\ SpAfter(i + 1) = calls[i].sp
        /\ (/\ i + 3 <= Len(calls)
            /\ IsPush(calls[i]) /\ IsPush(calls[i + 1])
            /\ calls[i + 2].op = PopOf(calls[i + 1])
            /\ calls[i + 3].op = PopOf(calls[i])) =>
              /\ calls[i + 2].ret = calls[i + 1].arg
              /\ calls[i + 3].ret = calls[i].arg
              /\ SpAfter(i + 3) = calls[i].sp

\* two different words pushed from SP = $00 (the first straddles the page)
\* and popped again: the second came back first, SP is $00 again
PushPopRoundTripWitness ==
    /\ Len(calls) = 4
    /\ calls[1].op = "push16" /\ calls[1].sp = 0 /\ calls[1].arg = 4660
    /\ calls[2].op = "push16" /\ calls[2].arg = 65280
    /\ calls[3].op = "pop16" /\ calls[3].ret = 65280
    /\ calls[4].op = "pop16" /\ calls[4].ret = 4660
    /\ sp = 0

\* C12: with SP = s, pushing a byte stores it at $0100+s and leaves SP =
\* (s-1) mod 256; pushing a word stores its high byte at $0100+s and its
\* low byte at $0100+((s-1) mod 256) and leaves SP = (s-2) mod 256, so with
\* s = 0 the word straddles $0100 (high byte) and $01FF (low byte).
PushStores ==
    Len(calls) >= 1 =>
        LET c == calls[Len(calls)]
        IN  /\ c.op = "push8" =>
                  /\ MemAt(StackSlot(c.sp)) = c.arg
                  /\ sp = (c.sp - 1) % 256
                  /\ bus = <<<<"push", StackSlot(c.sp)>>>>
            /\ c.op = "push16" =>
                  /\ MemAt(StackSlot(c.sp)) = c.arg \div 256
                  /\ MemAt(StackSlot(c.sp - 1)) = c.arg % 256
                  /\ sp = (c.sp - 2) % 256
                  /\ bus = <<<<"push", StackSlot(c.sp - 1)>>, <<"push", StackSlot(c.sp)>>>>

\* $1234 pushed with SP = $00: $12 is at $0100, $34 at $01FF, SP = $FE
PushStoresWitness ==
    /\ Len(calls) = 1
    /\ calls[1].op = "push16" /\ calls[1].sp = 0 /\ calls[1].arg = 4660
    /\ sp = 254
    /\ DOMAIN mem = {256, 511}
    /\ mem[256] = 18 /\ mem[511] = 52

(***************************************************************************)
(* The properties of BRK, JSR/RTS and the interrupt lines.                 *)
(***************************************************************************)
\* C13: BRK at address a sets B, pushes the word a+2 and then SR (the
\* pushed SR has B = 1 and the I of before the instruction), then sets I,
\* loads PC with the little-endian word at $FFFE/$FFFF and returns 7; an RTI
\* executed afterwards resumes at a+2, skipping the byte after the opcode.
BrkService ==
    [][StepTaken =>
          /\ (ExecutesAt(BRK_OPCODE) /\ Completed) =>
                /\ MemAfter(StackSlot(sp)) = (pc + 2) \div 256
                /\ MemAfter(StackSlot(sp - 1)) = (pc + 2) % 256
                /\ MemAfter(StackSlot(sp - 2)) = Or8(sr, BREAK_FLAG)
                /\ Contains(MemAfter(StackSlot(sp - 2)), INTERRUPT_DISABLE_FLAG)
                      = Contains(sr, INTERRUPT_DISABLE_FLAG)
                /\ sr' = Or8(Or8(sr, BREAK_FLAG), INTERRUPT_DISABLE_FLAG)
                /\ pc' = MemAt(65534) + 256 * MemAt(65535)
                /\ sp' = (sp - 3) % 256
                /\ cycles' = 7
                /\ UNCHANGED <<ac, x, y, reset, nmi, irq>>
          /\ (/\ branch = "instr" /\ pre.opcode = BRK_OPCODE
              /\ ExecutesAt(RTI_OPCODE) /\ Completed) =>
                /\ pc' = pre.pc + 2
                /\ sp' = pre.sp
                /\ sr' = Or8(pre.sr, BREAK_FLAG)]_vars

\* a BRK was executed with I clear and the RTI at the handler returned past its signature byte
BrkServiceWitness ==
    /\ steps = 2 /\ branch = "instr" /\ fault = "none"
    /\ image.opc = BRK_OPCODE
    /\ pre.pc = IrqHandler /\ pre.opcode = RTI_OPCODE
    /\ Contains(pre.sr, BREAK_FLAG) /\ Contains(pre.sr, INTERRUPT_DISABLE_FLAG)
    /\ pc = image.org + 2
    /\ Contains(sr, BREAK_FLAG) /\ ~Contains(sr, INTERRUPT_DISABLE_FLAG)
    /\ mem[StackSlot(sp - 1)] + 256 * mem[StackSlot(sp)] = image.org + 2

\* C14: JSR at address a pushes the word a+2 (the address of the last byte
\* of the JSR instruction) and sets PC to its absolute operand; an RTS that
\* follows and pops that word sets PC to a+3 and SP back to its value before
\* the JSR, also where the pushed word wraps around the stack page.
JsrRtsRoundTrip ==
    [][StepTaken =>
          /\ (ExecutesAt(32) /\ Completed) =>
                /\ MemAfter(StackSlot(sp)) = (pc + 2) \div 256
                /\ MemAfter(StackSlot(sp - 1)) = (pc + 2) % 256
                /\ pc' = MemAt(pc + 1) + 256 * MemAt(pc + 2)
                /\ sp' = (sp - 2) % 256
                /\ cycles' = 6
                /\ UNCHANGED <<ac, x, y, sr, reset, nmi, irq>>
          /\ (/\ branch = "instr" /\ pre.opcode = 32
              /\ ExecutesAt(96) /\ Completed) =>
                /\ pc' = pre.pc + 3
                /\ sp' = pre.sp
                /\ cycles' = 6
                /\ UNCHANGED <<ac, x, y, sr, mem>>]_vars

\* JSR executed with SP = $00 (the return address straddles the page), then
\* the RTS at its target: PC is behind the JSR and SP is $00 again
JsrRtsRoundTripWitness ==
    /\ steps = 2 /\ branch = "instr" /\ fault = "none"
    /\ image.opc = 32
    /\ pre.pc = 12336 /\ pre.opcode = 96 /\ pre.sp = 254
    /\ pc = image.org + 3
    /\ sp = 0
    /\ DOMAIN mem = {256, 511}
    /\ mem[511] + 256 * mem[256] = image.org + 2

\* C15: reset(), nmi() and irq() change nothing but their own latch and are
\* idempotent: a call on a latched line leaves the CPU as it is, so any
\* number of calls between two steps equals one; the step that services a
\* latched NMI or IRQ clears the latch, a step services only a line it finds
\* latched, and no step latches a line: there is no second service until
\* the line is requested again.
LatchesAreEdges ==
    [][/\ steps' = steps =>
              /\ UNCHANGED <<pc, ac, x, y, sr, sp, mem>>
              /\ (reset => reset') /\ (nmi => nmi') /\ (irq => irq')
              /\ Cardinality({l \in {"reset", "nmi", "irq"} :
                                 \/ l = "reset" /\ reset' # reset
                                 \/ l = "nmi" /\ nmi' # nmi
                                 \/ l = "irq" /\ irq' # irq}) <= 1
       /\ StepTaken =>
              /\ branch' = "nmi" => nmi /\ ~nmi'
              /\ (branch' = "irq" /\ Completed) => irq /\ ~irq'
              /\ (~reset => ~reset') /\ (~nmi => ~nmi') /\ (~irq => ~irq')
              /\ branch' = "instr" => UNCHANGED <<reset, nmi, irq>>]_vars

\* an NMI was serviced by the first step; the second step, with the line no
\* longer latched, executed the handler's RTI instead of a second service
LatchesAreEdgesWitness ==
    /\ steps = 2 /\ branch = "instr" /\ fault = "none"
    /\ pre.pc = NmiHandler /\ pre.opcode = RTI_OPCODE
    /\ ~pre.nmi /\ ~pre.reset /\ ~pre.irq
    /\ ~nmi
    /\ pc = image.org

(***************************************************************************)
(* The properties of the addressing modes.                                 *)
(***************************************************************************)
\* the operand word and the operand byte behind the opcode at PC
OperandWord == MemAt(pc + 1) + 256 * MemAt(pc + 2)

OperandByte == MemAt(pc + 1)

\* C16: for every 16-bit w, Indirect(w).addr is mem[w] | mem[(w & $FF00) |
\* ((w+1) & $00FF)] << 8: the high byte of the target is fetched from the
\* page of w, for w = $HHFF from $HH00 and never from $(HH+1)00.
IndirectStaysInPage ==
    [][(ExecutesAt(108) /\ Completed) =>
          LET w    == OperandWord
              high == (w \div 256) * 256 + ((w + 1) % 256)
          IN  /\ pc' = MemAt(w) + 256 * MemAt(high)
              /\ bus' = <<<<"fetch", pc>>, <<"operand", pc + 1>>, <<"operand", pc + 2>>,
                          <<"read", w>>, <<"read", high>>>>]_vars

\* JMP ($C0FF) was executed: the target $C0BF is made of mem[$C0FF] and mem[$C000]
IndirectStaysInPageWitness ==
    /\ steps = 1 /\ branch = "instr" /\ fault = "none"
    /\ image.opc = 108 /\ image.lo = 255 /\ image.hi = 192
    /\ bus[4] = <<"read", 49407>> /\ bus[5] = <<"read", 49152>>
    /\ pc = 49343

\* C17: for every operand byte b and index value, the effective address of
\* ZeroPageIndexedWithX(b) is (b+X) mod 256 and of ZeroPageIndexedWithY(b)
\* is (b+Y) mod 256, always below $0100; ZeroPageIndexedWithXIndirect(b)
\* starts reading its pointer word at (b+X) mod 256, never at $0100 or above.
ZeroPageIndexWraps ==
    [][StepTaken =>
          /\ (ExecutesAt(181) /\ Completed) =>
                /\ bus'[3] = <<"read", (OperandByte + x) % 256>>
                /\ Len(bus') = 3
                /\ ac' = MemAt((OperandByte + x) % 256)
          /\ (ExecutesAt(182) /\ Completed) =>
                /\ bus'[3] = <<"read", (OperandByte + y) % 256>>
                /\ Len(bus') = 3
                /\ x' = MemAt((OperandByte + y) % 256)
          /\ (ExecutesAt(161) /\ Completed) =>
                /\ bus'[3] = <<"read", (OperandByte + x) % 256>>
                /\ bus'[4] = <<"read", ((OperandByte + x) % 256) + 1>>
                /\ ac' = MemAt(MemAt((OperandByte + x) % 256)
                               + 256 * MemAt(((OperandByte + x) % 256) + 1))]_vars

\* LDA $FF,X was executed with X = 1: the byte was read at $0000, not at $0100
ZeroPageIndexWrapsWitness ==
    /\ steps = 1 /\ branch = "instr" /\ fault = "none"
    /\ image.opc = 181 /\ image.lo = 255
    /\ pre.x = 1
    /\ bus[3] = <<"read", 0>>
    /\ ac = 0

\* C18: for ZeroPageIndirectIndexedWithY($FF) the indirect word is read
\* with its low byte from $00FF and its high byte from $0000, and the
\* effective address is that word plus Y modulo 2^16.
IndirectYPointerWraps ==
    [][(ExecutesAt(177) /\ OperandByte = 255 /\ Completed) =>
          /\ bus'[3] = <<"read", 255>>
          /\ bus'[4] = <<"read", 0>>
          /\ bus'[5] = <<"read", (MemAt(255) + 256 * MemAt(0) + y) % 65536>>
          /\ ac' = MemAt((MemAt(255) + 256 * MemAt(0) + y) % 65536)]_vars

(***************************************************************************)
(* The properties of ADC and SBC.                                          *)
(***************************************************************************)
\* the last step executed this opcode with an immediate operand and returned
Executed(opcode) == branch = "instr" /\ pre.opcode = opcode /\ fault = "none"

\* the immediate operand and the carry the last step found
Immediate == MemAt(pre.pc + 1)

CarryIn == pre.sr % 2

Negative(b) == b >= 128

\* N and Z are those of the byte b; I, D, B and bit 5 and X, Y, SP are as before the step
FlagsFollow(b) ==
    /\ Contains(sr, ZERO_FLAG) = (b = 0)
    /\ Contains(sr, NEGATIVE_FLAG) = (b >= 128)
    /\ \A f \in {INTERRUPT_DISABLE_FLAG, DECIMAL_FLAG, BREAK_FLAG, UNUSED_ALWAYS_ON_FLAG} :
          Contains(sr, f) = Contains(pre.sr, f)
    /\ x = pre.x /\ y = pre.y /\ sp = pre.sp

\* C19: with D clear, for all AC, operand m and carry-in c, ADC computes
\* r = AC + m + c and leaves AC = r mod 256, C = (r > 255), V = (AC and m
\* have the same sign bit and r mod 256 the opposite one), Z = (r mod 256 =
\* 0), N = bit 7 of r mod 256; X, Y, SP and the I, D, B flags are unchanged.
AdcAdds ==
    Executed(105) =>
        LET r == pre.ac + Immediate + CarryIn
        IN  /\ ac = r % 256
            /\ Contains(sr, CARRY_FLAG) = (r > 255)
            /\ Contains(sr, OVERFLOW_FLAG) =
                  (/\ Negative(pre.ac) = Negative(Immediate)
                   /\ Negative(r % 256) # Negative(pre.ac))
            /\ FlagsFollow(r % 256)

\* $7F + $01 with the carry clear: AC = $80, V and N set, C and Z clear
AdcAddsWitness ==
    /\ Executed(105)
    /\ pre.ac = 127 /\ Immediate = 1 /\ CarryIn = 0
    /\ ac = 128
    /\ sr = 32 + OVERFLOW_FLAG + NEGATIVE_FLAG

\* C20: with D clear, for all AC, operand m and carry-in c, SBC computes
\* r = AC - m - (1 - c) over the integers and leaves AC = r mod 256, C =
\* (r >= 0), V = (AC and m differ in sign bit and AC and r mod 256 differ in
\* sign bit), with N and Z taken from r mod 256.
SbcSubtracts ==
    Executed(233) =>
        LET r == pre.ac - Immediate - (1 - CarryIn)
        IN  /\ ac = r % 256
            /\ Contains(sr, CARRY_FLAG) = (r >= 0)
            /\ Contains(sr, OVERFLOW_FLAG) =
                  (/\ Negative(pre.ac) # Negative(Immediate)
                   /\ Negative(pre.ac) # Negative(r % 256))
            /\ FlagsFollow(r % 256)

\* $80 - $01 with the carry set (no borrow): AC = $7F, V and C set, N and Z clear
SbcSubtractsWitness ==
    /\ Executed(233)
    /\ pre.ac = 128 /\ Immediate = 1 /\ CarryIn = 1
    /\ ac = 127
    /\ Contains(sr, OVERFLOW_FLAG) /\ Contains(sr, CARRY_FLAG)
    /\ ~Contains(sr, NEGATIVE_FLAG) /\ ~Contains(sr, ZERO_FLAG)

(***************************************************************************)
(* The properties of the decoder and of the instructions it selects.       *)
(***************************************************************************)
\* the opcodes of ADC and of SBC, in their eight addressing modes each
AdcOpcodes == {105, 101, 117, 109, 125, 121, 97, 113}
SbcOpcodes == {233, 229, 245, 237, 253, 249, 225, 241}

\* C21: executing ADC or SBC (any addressing mode) while the D flag is set
\* is a fatal error: the step never completes with a result, and AC, the
\* flags and memory are not modified by the failing instruction.
DecimalArithmeticFails ==
    [][(StepTaken /\ Due = "instr" /\ MemAt(pc) \in AdcOpcodes \cup SbcOpcodes
                  /\ Contains(sr, DECIMAL_FLAG)) =>
          /\ fault' # "none"
          /\ cycles' = 0
          /\ ac' = ac /\ sr' = sr /\ mem' = mem]_vars

\* ADC ($FB),Y was stepped with D set: the step panicked, AC and SR are as before
DecimalArithmeticFailsWitness ==
    /\ steps = 1 /\ branch = "instr"
    /\ pre.opcode = 113 /\ Contains(pre.sr, DECIMAL_FLAG)
    /\ fault = "decimal"
    /\ ac = pre.ac /\ sr = pre.sr /\ mem = <<>>

\* the register a compare opcode reads, before the step
CompareRegister ==
    CASE pre.opcode \in {201, 197} -> pre.ac
      [] pre.opcode = 224          -> pre.x
      [] pre.opcode = 192          -> pre.y

\* the operand of the compare: the immediate byte, or the byte at the zero-page address
CompareOperand == IF pre.opcode = 197 THEN MemAt(Immediate) ELSE Immediate

\* C22: for all register values g (AC for CMP, X for CPX, Y for CPY) and
\* operands m, the compare sets C = (g >= m) as unsigned bytes, Z = (g = m)
\* and N = bit 7 of (g - m) mod 256, and changes neither the register, the V
\* flag nor memory.
CompareSetsFlags ==
    (steps = 1 /\ fault = "none") =>
        LET g == CompareRegister
            m == CompareOperand
        IN  /\ Contains(sr, CARRY_FLAG) = (g >= m)
            /\ Contains(sr, ZERO_FLAG) = (g = m)
            /\ Contains(sr, NEGATIVE_FLAG) = (((g - m) % 256) \div 128 = 1)
            /\ ac = pre.ac /\ x = pre.x /\ y = pre.y
            /\ Contains(sr, OVERFLOW_FLAG) = Contains(pre.sr, OVERFLOW_FLAG)
            /\ mem = <<>>

\* CPX #$7F with X = $80 and every flag clear: C set (X >= m although X is
\* negative as a signed byte), Z and N clear, V still clear
CompareSetsFlagsWitness ==
    /\ steps = 1 /\ Executed(224)
    /\ pre.x = 128 /\ Immediate = 127 /\ pre.sr = 32
    /\ sr = 32 + CARRY_FLAG
    /\ x = 128

(***************************************************************************)
(* The properties of the shifts and rotates.                               *)
(***************************************************************************)
ShiftsOfAccumulator == {10, 74, 42, 106}       \* ASL A, LSR A, ROL A, ROR A
ShiftsOfZeroPage    == {6, 70, 38, 102}        \* ASL $m, LSR $m, ROL $m, ROR $m

\* the value a shift leaves for the operand value v and the carry cin (0 or 1)
ShiftedValue(opcode, v, cin) ==
    CASE opcode \in {10, 6}   -> (v * 2) % 256
      [] opcode \in {74, 70}  -> v \div 2
      [] opcode \in {42, 38}  -> ((v * 2) % 256) + cin
      [] opcode \in {106, 102} -> (v \div 2) + 128 * cin

\* the carry a shift leaves: bit 7 of v for the left shifts, bit 0 for the right shifts
ShiftedCarry(opcode, v) ==
    IF opcode \in {10, 6, 42, 38} THEN v >= 128 ELSE v % 2 = 1

\* C23: ROL and ROR rotate the operand through the carry as a 9-bit
\* quantity: ROL writes back ((v << 1) mod 256) | old C and sets C to bit 7
\* of v; ROR writes back (v >> 1) | (old C << 7) and sets C to bit 0 of v;
\* ASL and LSR do the same with 0 shifted in; the result is written to the
\* same operand it was read from (AC or the memory location), N and Z
\* follow the result, and ROL followed by ROR on the same operand restores
\* both the operand and C.
ShiftsAndRotates ==
    [][(StepTaken /\ Due = "instr" /\ Completed) =>
          LET opcode == MemAt(pc)
              cin    == sr % 2
          IN  /\ opcode \in ShiftsOfAccumulator =>
                    /\ ac' = ShiftedValue(opcode, ac, cin)
                    /\ Contains(sr', CARRY_FLAG) = ShiftedCarry(opcode, ac)
                    /\ Contains(sr', ZERO_FLAG) = (ac' = 0)
                    /\ Contains(sr', NEGATIVE_FLAG) = (ac' >= 128)
                    /\ mem' = mem
              /\ opcode \in ShiftsOfZeroPage =>
                    /\ MemAfter(OperandByte) = ShiftedValue(opcode, MemAt(OperandByte), cin)
                    /\ Contains(sr', CARRY_FLAG) = ShiftedCarry(opcode, MemAt(OperandByte))
                    /\ Contains(sr', ZERO_FLAG) = (MemAfter(OperandByte) = 0)
                    /\ Contains(sr', NEGATIVE_FLAG) = (MemAfter(OperandByte) >= 128)
                    /\ ac' = ac
                    /\ \A a \in (DOMAIN mem') \ {OperandByte} : a \in DOMAIN mem /\ mem'[a] = mem[a]
              \* ROR A after ROL A: pre holds AC and SR as the ROL found them
              /\ (steps = 1 /\ pre.opcode = 42 /\ opcode = 106) =>
                    /\ ac' = pre.ac
                    /\ Contains(sr', CARRY_FLAG) = Contains(pre.sr, CARRY_FLAG)
              \* ROR $13 after ROL $13: the byte at $13 was the complement of AC
              /\ (steps = 1 /\ pre.opcode = 38 /\ opcode = 102
                            /\ MemAt(pre.pc + 1) = 19 /\ OperandByte = 19) =>
                    /\ MemAfter(19) = 255 - ac
                    /\ Contains(sr', CARRY_FLAG) = Contains(pre.sr, CARRY_FLAG)]_vars

\* ROL A of $81 with C set left $03 and C set; the ROR A behind it restored $81 and C
ShiftsAndRotatesWitness ==
    /\ steps = 2 /\ fault = "none"
    /\ image.opc = 42 /\ pre.opcode = 106
    /\ pre.ac = 3 /\ Contains(pre.sr, CARRY_FLAG)
    /\ ac = 129 /\ Contains(sr, CARRY_FLAG) /\ Contains(sr, NEGATIVE_FLAG)

\* what a step leaves in AC, X, Y and SP
RegistersBecome(a, b, c, d) == ac' = a /\ x' = b /\ y' = c /\ sp' = d

\* N and Z of SR are those of the byte b after the step, the other six flags are unchanged
OnlyZnFollow(b) ==
    /\ Contains(sr', ZERO_FLAG) = (b = 0)
    /\ Contains(sr', NEGATIVE_FLAG) = (b >= 128)
    /\ And8(sr', 125) = And8(sr, 125)

\* C24: TAX, TAY, TXA, TYA and TSX copy the source register to the
\* destination and set N and Z from the copied value, leaving the source
\* register, the other registers, the other flags and memory unchanged; TXS
\* sets SP = X and changes no flag at all.
TransfersCopy ==
    [][(StepTaken /\ Due = "instr" /\ Completed) =>
          LET opcode == MemAt(pc)
          IN  /\ opcode = 170 => RegistersBecome(ac, ac, y, sp) /\ OnlyZnFollow(ac)     \* TAX
              /\ opcode = 168 => RegistersBecome(ac, x, ac, sp) /\ OnlyZnFollow(ac)     \* TAY
              /\ opcode = 138 => RegistersBecome(x, x, y, sp) /\ OnlyZnFollow(x)        \* TXA
              /\ opcode = 152 => RegistersBecome(y, x, y, sp) /\ OnlyZnFollow(y)        \* TYA
              /\ opcode = 186 => RegistersBecome(ac, sp, y, sp) /\ OnlyZnFollow(sp)     \* TSX
              /\ opcode = 154 => RegistersBecome(ac, x, y, x) /\ sr' = sr               \* TXS
              /\ opcode \in {170, 168, 138, 152, 186, 154} => mem' = mem /\ pc' = pc + 1]_vars

\* TSX with SP = $FD and N, V, Z set: X = $FD, N stays set, Z is cleared, V stays set
TransfersCopyWitness ==
    /\ steps = 1 /\ branch = "instr" /\ fault = "none"
    /\ pre.opcode = 186 /\ pre.sp = 253 /\ pre.sr = 226
    /\ x = 253 /\ sp = 253
    /\ sr = 224

\* the opcode bytes next_instruction accepts
LegalOpcodes == {b \in Byte : OpcodeTable[b] # NoInstruction}

\* C25: the decoder accepts exactly 151 distinct opcode bytes; for each of
\* the other 105 byte values decoding yields no instruction and the step
\* ends in a fatal error instead of executing anything or changing AC, X, Y,
\* SR, SP or memory.
IllegalOpcodesFail ==
    [][(StepTaken /\ Due = "instr") =>
          /\ Cardinality(LegalOpcodes) = 151
          /\ Cardinality(Byte \ LegalOpcodes) = 105
          /\ MemAt(pc) \in LegalOpcodes => fault' # "illegal opcode"
          /\ MemAt(pc) \notin LegalOpcodes =>
                /\ fault' = "illegal opcode"
                /\ cycles' = 0
                /\ ac' = ac /\ x' = x /\ y' = y /\ sr' = sr /\ sp' = sp
                /\ mem' = mem]_vars

\* the byte $02 was stepped: the step panicked with the registers and memory as they were
IllegalOpcodesFailWitness ==
    /\ steps = 1 /\ branch = "instr"
    /\ pre.opcode = 2
    /\ fault = "illegal opcode"
    /\ ac = pre.ac /\ x = pre.x /\ y = pre.y /\ sr = pre.sr /\ sp = pre.sp
    /\ mem = <<>>

\* the instruction and the addressing mode of the opcode at PC
InstructionAtPc == OpcodeTable[MemAt(pc)][2]
ModeAtPc        == OpcodeTable[MemAt(pc)][3]

\* whether the branch instruction ins is taken for the flags on entry
BranchTaken(ins) ==
    CASE ins = "BCC" -> sr % 2 = 0
      [] ins = "BCS" -> sr % 2 = 1
      [] ins = "BNE" -> (sr \div 2) % 2 = 0
      [] ins = "BEQ" -> (sr \div 2) % 2 = 1
      [] ins = "BVC" -> (sr \div 64) % 2 = 0
      [] ins = "BVS" -> (sr \div 64) % 2 = 1
      [] ins = "BPL" -> sr \div 128 = 0
      [] ins = "BMI" -> sr \div 128 = 1
      [] OTHER       -> FALSE

\* the operand bytes of an addressing mode
OperandBytes(mode) ==
    CASE mode \in {"Implied", "Accumulator"} -> 0
      [] mode \in {"Absolute", "AbsoluteIndexedWithX", "AbsoluteIndexedWithY", "Indirect"} -> 2
      [] OTHER -> 1

\* C26: for every legal opcode whose instruction is not JMP, JSR, RTS, RTI,
\* BRK or a taken branch, an instruction step advances PC by exactly 1 plus
\* the operand size of its addressing mode: 0 for Implied and Accumulator,
\* 1 for Immediate, Relative and all zero-page modes, 2 for Absolute,
\* AbsoluteIndexedWithX/Y and Indirect.
PcAdvancesBySize ==
    [][(StepTaken /\ Due = "instr" /\ Completed
                  /\ InstructionAtPc \notin {"JMP", "JSR", "RTS", "RTI", "BRK"}
                  /\ ~BranchTaken(InstructionAtPc)) =>
          pc' = pc + 1 + OperandBytes(ModeAtPc)]_vars

\* LDA $02FB,X was stepped: PC went from $1000 to $1003
PcAdvancesBySizeWitness ==
    /\ steps = 1 /\ branch = "instr" /\ fault = "none"
    /\ pre.opcode = 189 /\ pre.pc = 4096
    /\ pc = 4099

\* the cycle count next_instruction gives for an opcode byte
BaseCycles == [b \in Byte |-> OpcodeTable[b][1]]

SignedOperand == IF OperandByte >= 128 THEN OperandByte - 256 ELSE OperandByte

\* C28: Relative(o).addr equals (PC + o) mod 2^16 with o read as a signed
\* 8-bit offset and PC the address following the branch instruction, and
\* Absolute-indexed addresses equal (w + X) mod 2^16 or (w + Y) mod 2^16; a
\* branch whose condition holds sets PC to the relative target and a branch
\* whose condition fails leaves PC at the following instruction, with no
\* register, flag or memory change in either case.
BranchesAndIndexing ==
    [][(StepTaken /\ Due = "instr" /\ Completed) =>
          /\ MemAt(pc) \in BranchOpcodes =>
                /\ pc' = IF BranchTaken(InstructionAtPc)
                         THEN (pc + 2 + SignedOperand) % 65536
                         ELSE pc + 2
                /\ ac' = ac /\ x' = x /\ y' = y /\ sp' = sp /\ sr' = sr
                /\ mem' = mem
          /\ MemAt(pc) = 189 =>
                /\ bus'[4] = <<"read", (OperandWord + x) % 65536>>
                /\ ac' = MemAt((OperandWord + x) % 65536)
          /\ MemAt(pc) = 185 =>
                /\ bus'[4] = <<"read", (OperandWord + y) % 65536>>
                /\ ac' = MemAt((OperandWord + y) % 65536)
          /\ MemAt(pc) = 190 =>
                /\ bus'[4] = <<"read", (OperandWord + y) % 65536>>
                /\ x' = MemAt((OperandWord + y) % 65536)]_vars

\* BEQ -51 at $0000 was stepped with Z set: PC = ($0002 - $33) mod 2^16 = $FFCF
BranchesAndIndexingWitness ==
    /\ steps = 1 /\ branch = "instr" /\ fault = "none"
    /\ pre.opcode = 240 /\ pre.pc = 0 /\ pre.sr = 227
    /\ image.lo = 205
    /\ pc = 65487
    /\ sr = 227 /\ mem = <<>>

(***************************************************************************)
(* The properties of the multi-byte accessors.                             *)
(***************************************************************************)
\* the n successive addresses from a, wrapping to 0 behind $FFFF
Successive(a, n) == [k \in 1..n |-> (a + k - 1) % 65536]

\* C29: on a RAM that covers the whole address space, for every plain start
\* address a (including addresses next to the top of the address space,
\* where successors wrap to 0), every T in {u8,u16,u32,i8,i16,i32} and every
\* value v of T: set_be(a, v) followed by get_be(a) returns v, set_le(a, v)
\* followed by get_le(a) returns v, the big-endian form stores the most
\* significant byte at a and the little-endian form stores the least
\* significant byte at a, and exactly size_of(T) successive addresses are
\* written.
BusRoundTrip ==
    /\ \A i \in 2..Len(calls) :
          (/\ calls[i].op = IF calls[i - 1].op = "set_be" THEN "get_be" ELSE "get_le"
           /\ calls[i - 1].op \in {"set_be", "set_le"}
           /\ calls[i].arg.addr = calls[i - 1].arg.addr
           /\ calls[i].arg.type = calls[i - 1].arg.type) =>
              calls[i].ret = calls[i - 1].arg.val
    /\ Stored =>
          LET s == calls[Len(calls)]
              a == s.arg.addr
              v == s.arg.val
              n == Primitives[s.arg.type].bytes
          IN  /\ Len(bus) = n
              /\ \A k \in 1..n : bus[k] = <<"write", Successive(a, n)[k]>>
              /\ Len(calls) = 1 => DOMAIN mem = {Successive(a, n)[k] : k \in 1..n}
              /\ s.op = "set_be" => mem[a] = (v \div (256 ^ (n - 1))) % 256
              /\ s.op = "set_le" => mem[a] = v % 256

\* set_be($FFFE, -0x6789abce_i32) wrote $98 at $FFFE and went on at $FFFF,
\* $0000 and $0001, and get_be returned the number
BusRoundTripWitness ==
    /\ Len(calls) = 2
    /\ calls[1].op = "set_be" /\ calls[1].arg = [addr |-> 65534, type |-> "i32", val |-> -1737075662]
    /\ calls[2].op = "get_be" /\ calls[2].ret = -1737075662
    /\ mem = (65534 :> 152 @@ 65535 :> 118 @@ 0 :> 84 @@ 1 :> 50)

(***************************************************************************)
(* The properties of address arithmetic.                                   *)
(***************************************************************************)
\* bit k of a 16-bit value
Bit(v, k) == (v \div (2 ^ k)) % 2

LastAccess == calls[Len(calls)]

\* the accesses before the i-th that set addr
SetsBefore(i, addr) ==
    {j \in 1..(i - 1) : calls[j].op = "set" /\ calls[j].arg[1] = addr}

\* the byte set last at addr before the i-th access, or the byte created there
MostRecent(i, addr) ==
    IF SetsBefore(i, addr) = {}
    THEN image[addr]
    ELSE calls[CHOOSE j \in SetsBefore(i, addr) :
                   \A k \in SetsBefore(i, addr) : k <= j].arg[2]

\* C31: on a RAM created with last address L, get(a) and set(a, d) with
\* a > L panic and change no stored byte; with a <= L, get(a) returns the byte
\* of the most recent set to a (the byte created there when there was none)
\* and set(a, d) stores d at a and changes no other address; a set never
\* changes the last address, and capacity() is L + 1.
RamContract ==
    [][ LET c == calls'[Len(calls')]
            a == c.arg[1]
        IN  /\ mem'.last_addr = mem.last_addr
            /\ DOMAIN mem'.data = DOMAIN mem.data
            /\ c.op = "capacity" => c.ret = mem.last_addr + 1 /\ mem' = mem /\ fault' = "none"
            /\ c.op \in {"get", "set"} /\ a > mem.last_addr =>
                  fault' # "none" /\ mem' = mem
            /\ c.op = "get" /\ a <= mem.last_addr =>
                  /\ fault' = "none"
                  /\ c.ret = MostRecent(Len(calls'), a)
                  /\ mem' = mem
            /\ c.op = "set" /\ a <= mem.last_addr =>
                  /\ fault' = "none"
                  /\ mem'.data[a] = c.arg[2]
                  /\ \A b \in DOMAIN mem.data : b # a => mem'.data[b] = mem.data[b]
      ]_vars

\* two different bytes were set at the last address and the second was read back
RamContractWitness ==
    /\ Len(calls) = 3
    /\ calls[1].op = "set" /\ calls[2].op = "set" /\ calls[3].op = "get"
    /\ calls[1].arg[1] = 2 /\ calls[2].arg[1] = 2 /\ calls[3].arg[1] = 2
    /\ calls[1].arg[2] # calls[2].arg[2]
    /\ calls[3].ret = calls[2].arg[2]
    /\ calls[3].ret # image[2]
    /\ fault = "none"

\* C32: a ROM is immutable after construction: no get, set or capacity call
\* changes it, a set with any address and data does not panic, get(a) with a
\* below the capacity returns the byte of the file at offset a whatever sets
\* came before, capacity() is the length of the file in every call, and get(a)
\* with a at or above the capacity panics.
RomImmutable ==
    [][ LET c == calls'[Len(calls')]
            a == c.arg[1]
            capacity == Cardinality(DOMAIN image)
        IN  /\ mem' = mem
            /\ mem'.data = image
            /\ c.op = "set" => fault' = "none"
            /\ c.op = "capacity" => c.ret = capacity /\ fault' = "none"
            /\ c.op = "get" /\ a < capacity => c.ret = image[a] /\ fault' = "none"
            /\ c.op = "get" /\ a >= capacity => fault' # "none"
            /\ \A b \in DOMAIN image : RomGet(mem', b) = [fault |-> "none", ret |-> image[b]]
      ]_vars

\* a byte was set at an address of the ROM and beyond it, and the address
\* still reads as the file's byte, which is not the byte that was set
RomImmutableWitness ==
    /\ Len(calls) = 3
    /\ 2 \in DOMAIN image
    /\ calls[1].op = "set" /\ calls[1].arg[1] = 2
    /\ calls[2].op = "set" /\ calls[2].arg[1] = 65535
    /\ calls[3].op = "get" /\ calls[3].arg[1] = 2
    /\ calls[3].ret = image[2] /\ calls[3].ret # calls[1].arg[2]
    /\ fault = "none"

\* C33: every handle cloned from one SharedMemory refers to the one cell that
\* owns the memory, so a get through any handle returns the byte set last at
\* its address through any handle; a get or set gives its borrow back before
\* it returns, so no borrow is live between two calls and no call made one
\* after the other, through whatever handles, fails on a borrow conflict.
SharedHandles ==
    [][ LET c == calls'[Len(calls')]
        IN  /\ fault' = "none"
            /\ \A id \in DOMAIN mem'.cells : mem'.cells[id].borrow = NotBorrowed
            /\ Len(mem'.cells) = 1
            /\ \A h \in DOMAIN mem'.handles : mem'.handles[h] = 1
            /\ c.op = "get" => c.ret = MostRecent(Len(calls'), c.arg[1])
            /\ c.op = "clone" => Len(mem'.handles) = Len(mem.handles) + 1
      ]_vars

\* a byte set through the first handle was read through its clone
SharedHandlesWitness ==
    /\ Len(calls) = 3
    /\ calls[1].op = "clone"
    /\ calls[2].op = "set" /\ calls[2].arg[3] = 1
    /\ calls[3].op = "get" /\ calls[3].arg[3] = 2
    /\ calls[3].arg[1] = calls[2].arg[1]
    /\ calls[3].ret = calls[2].arg[2]
    /\ fault = "none"

(***************************************************************************)
(* The properties of the Mos6510.                                          *)
(***************************************************************************)
\* the fields of the core and what its step() returned, as a tuple
CoreOf(c) ==
    <<c.pc, c.ac, c.x, c.y, c.sr, c.sp, c.mem, c.reset, c.nmi, c.irq, c.cycles, c.fault>>

\* C34: every call on a Mos6510 does to its core and its memory what the same
\* call does on a Mos6502 in the same state, and step() returns the same
\* cycles, so the two stay equal over any sequence of reset(), nmi(), irq()
\* and step(); port_ddr and port_dat stay 0; a load from $0000 or $0001
\* returns the byte of the memory and a store there changes the memory.
PortForwards ==
    [][ /\ port' = [ddr |-> 0, dat |-> 0]
        /\ StepTaken =>
              \E checks \in BOOLEAN :
                  CoreOf([This EXCEPT !.pc = pc', !.ac = ac', !.x = x', !.y = y',
                                      !.sr = sr', !.sp = sp', !.mem = mem',
                                      !.reset = reset', !.nmi = nmi', !.irq = irq',
                                      !.cycles = cycles', !.fault = fault'])
                      = CoreOf(step(This, checks))
        /\ ~StepTaken =>
              /\ UNCHANGED <<Registers, mem, fault>>
              /\ \/ reset' /\ UNCHANGED <<nmi, irq>>
                 \/ nmi' /\ UNCHANGED <<reset, irq>>
                 \/ irq' /\ UNCHANGED <<reset, nmi>>
        /\ StepTaken /\ Due = "instr" /\ MemAt(pc) \in {165, 173} =>
              /\ ac' = MemAt(image.lo)
              /\ bus'[Len(bus')] = <<"read", image.lo>>
        /\ StepTaken /\ Due = "instr" /\ MemAt(pc) \in {133, 141} =>
              /\ MemAfter(image.lo) = ac
              /\ bus'[Len(bus')] = <<"write", image.lo>>
      ]_vars

\* after the reset, STA $01 stored the accumulator in the memory at $0001
PortForwardsWitness ==
    /\ steps = 2 /\ pre.opcode = 133 /\ branch = "instr" /\ fault = "none"
    /\ 1 \in DOMAIN mem /\ mem[1] = ac
    /\ port = [ddr |-> 0, dat |-> 0]

\* C35: no step() ends in the invalid-operand panic: for each of the 151
\* opcodes the decoder accepts and every register state, executing the
\* decoded pair calls addr, get and set only on operands that have an
\* address, a value or a place to store; a step that decoded one of them ends
\* without a panic, or in the panic of the decimal mode.
OperandsAreValid ==
    /\ fault # "operand"
    /\ steps = 1 /\ pre.opcode \in LegalOpcodes => fault \in {"none", "decimal"}

\* ASL A was executed: it got and set an operand that has no address
OperandsAreValidWitness ==
    /\ steps = 1 /\ fault = "none" /\ branch = "instr"
    /\ pre.opcode = 10 /\ pre.ac = 136 /\ ac = 16 /\ Contains(sr, CARRY_FLAG)

\* the accesses that read the bus and those that write it
ReadKinds  == {"fetch", "operand", "read", "pop", "vector"}
WriteKinds == {"push", "write"}

\* the last step executed an instruction to its end
InstructionDone == steps >= 1 /\ branch = "instr" /\ fault = "none"

\* the opcode is fetched at PC, the operand bytes at the addresses behind it
\* in ascending order, and nothing is fetched after them
FetchesFirst ==
    LET n == OperandBytes(OpcodeTable[pre.opcode][3])
    IN  /\ Len(bus) >= 1 + n
        /\ bus[1] = <<"fetch", pre.pc>>
        /\ \A i \in 1..n : bus[1 + i] = <<"operand", pre.pc + i>>
        /\ \A i \in (n + 2)..Len(bus) : bus[i][1] \notin {"fetch", "operand"}

NoReadAfterWrite ==
    \A i, j \in DOMAIN bus : i < j /\ bus[i][1] \in WriteKinds => bus[j][1] \notin ReadKinds

\* C36 as claimed: within every instruction step the opcode fetch comes
\* first, then the operand fetches in ascending order, then every other read,
\* and only after all reads any write: no step reads after it has written.
BusOrderNoReadAfterWrite == InstructionDone => FetchesFirst /\ NoReadAfterWrite

\* C36 as amended: within every instruction step the opcode fetch comes
\* first, then the operand fetches in ascending order; in every instruction
\* but BRK all other reads follow and only after all reads any write; BRK
\* pushes PC + 1 and SR and reads the IRQ vector after these three writes.
BusOrder ==
    InstructionDone =>
        /\ FetchesFirst
        /\ pre.opcode # BRK_OPCODE => NoReadAfterWrite
        /\ pre.opcode = BRK_OPCODE =>
              bus = << <<"fetch", pre.pc>>,
                       <<"push", StackSlot(pre.sp - 1)>>, <<"push", StackSlot(pre.sp)>>,
                       <<"push", StackSlot(pre.sp - 2)>>,
                       <<"vector", IRQ_VECTOR>>, <<"vector", IRQ_VECTOR + 1>> >>

\* INC $05 read the byte at $0005 after its fetches and wrote it last
BusOrderWitness ==
    /\ InstructionDone /\ pre.opcode = 230
    /\ bus = << <<"fetch", 4096>>, <<"operand", 4097>>, <<"read", 5>>, <<"write", 5>> >>

\* C37: the pointer word of both zero-page indirect modes is fetched at the
\* pointer address and at its 16-bit successor: when the pointer address is
\* $00FF (for ($LL,X) after the index is added modulo 256, for ($LL),Y with
\* LL = $FF) the low byte is read from $00FF and the high byte from $0100.
PointerHighByteFromPageOne ==
    [][ LET word == MemAt(255) + 256 * MemAt(256)
        IN  /\ (ExecutesAt(161) /\ (OperandByte + x) % 256 = 255 /\ Completed) =>
                  /\ bus' = <<<<"fetch", pc>>, <<"operand", pc + 1>>,
                              <<"read", 255>>, <<"read", 256>>, <<"read", word>>>>
                  /\ ac' = MemAt(word)
            /\ (ExecutesAt(177) /\ OperandByte = 255 /\ Completed) =>
                  /\ bus' = <<<<"fetch", pc>>, <<"operand", pc + 1>>,
                              <<"read", 255>>, <<"read", 256>>,
                              <<"read", (word + y) % 65536>>>>
                  /\ ac' = MemAt((word + y) % 65536)
      ]_vars

\* LDA ($EE,X) was executed with X = $11: the pointer $01FF was read at $00FF
\* and $0100 and the accumulator loaded from $01FF
PointerHighByteFromPageOneWitness ==
    /\ steps = 1 /\ branch = "instr" /\ fault = "none"
    /\ image.opc = 161 /\ image.lo = 238 /\ pre.x = 17
    /\ bus[3] = <<"read", 255>> /\ bus[4] = <<"read", 256>> /\ bus[5] = <<"read", 511>>
    /\ ac = data_for_addr(511)

\* C38: interrupt entry and RTI are inverse.  When the step before serviced
\* an NMI at PC = p, SR = f, SP = s and the handler starts with RTI, the RTI
\* step leaves PC = p, SP = s and SR = f; when it serviced an IRQ and the byte
\* at p is not $00, the RTI step leaves PC = p, SP = s and SR = f with B
\* clear, and I is clear again.
InterruptReturns ==
    [][(ExecutesAt(RTI_OPCODE) /\ branch \in {"nmi", "irq"}) =>
          /\ Completed
          /\ branch = "nmi" =>
                /\ pc = NmiHandler
                /\ pc' = pre.pc /\ sp' = pre.sp /\ sr' = pre.sr
          /\ branch = "irq" /\ pre.opcode # BRK_OPCODE =>
                /\ pc = IrqHandler
                /\ pc' = pre.pc /\ sp' = pre.sp
                /\ sr' = Remove(pre.sr, BREAK_FLAG)
                /\ ~Contains(pre.sr, INTERRUPT_DISABLE_FLAG)
                /\ Contains(sr, INTERRUPT_DISABLE_FLAG)
                /\ ~Contains(sr', INTERRUPT_DISABLE_FLAG)]_vars

\* an IRQ was serviced at $1000 with SP = 0: the return address went to $01FF
\* and $0100 and SR with B clear to $01FE, and the RTI of the handler
\* returned to $1000 with I clear and SP = 0
InterruptReturnsWitness ==
    /\ steps = 2 /\ branch = "instr" /\ fault = "none"
    /\ pre.pc = IrqHandler /\ pre.opcode = RTI_OPCODE
    /\ pre.sp = 253 /\ Contains(pre.sr, INTERRUPT_DISABLE_FLAG)
    /\ DOMAIN mem = {256, 510, 511}
    /\ mem[511] = 0 /\ mem[256] = 16 /\ mem[510] = 32
    /\ pc = 4096 /\ sp = 0 /\ sr = 32

(***************************************************************************)
(* The properties of the program counter at the top of the address space.  *)
(***************************************************************************)
\* the word a step left on the stack below the stack pointer it found
PushedWord == MemAfter(StackSlot(sp - 1)) + 256 * MemAfter(StackSlot(sp))

\* C39: all program-counter arithmetic is modulo 2^16 and aborts no step: an
\* instruction whose bytes straddle $FFFF/$0000 is fetched at PC, PC + 1 and
\* PC + 2 modulo 2^16 and leaves PC wrapped, RTS popping $FFFF sets PC to
\* $0000, JSR pushes the address of its last byte, $FFFF when $0000 follows
\* it, BRK pushes PC + 2 and the IRQ BRK-skip PC + 1, both modulo 2^16.
PcArithmeticWraps ==
    [][StepTaken =>
          /\ fault' # "overflow"
          /\ (Due = "instr" /\ Completed) =>
                /\ \A i \in 0..OperandBytes(ModeAtPc) : bus'[1 + i][2] = (pc + i) % 65536
                /\ MemAt(pc) \in {234, 169, 173} =>
                      pc' = (pc + 1 + OperandBytes(ModeAtPc)) % 65536
                /\ MemAt(pc) = 96 => pc' = (WordAt(StackSlot(sp + 1)) + 1) % 65536
                /\ MemAt(pc) = 32 => PushedWord = (pc + 2) % 65536
                /\ MemAt(pc) = BRK_OPCODE => PushedWord = (pc + 2) % 65536
          /\ (Due = "irq" /\ MemAt(pc) = BRK_OPCODE) => PushedWord = (pc + 1) % 65536]_vars

(***************************************************************************)
(* The properties of a newly constructed CPU.                              *)
(***************************************************************************)
\* C40: until its first step a new CPU has PC = 0, SR = $20 and the reset
\* line latched, whatever nmi() and irq() calls were made, and its first step
\* services the reset; a reset service leaves all three lines clear, and as a
\* step latches no line and services only a latched one, an NMI or IRQ that
\* was latched when the reset was serviced is serviced later only if it is
\* requested again; an NMI service clears the nmi line only and leaves a
\* latched IRQ pending.
NewCpuResetsFirst ==
    [][ /\ steps = 0 => pc = 0 /\ sr = UNUSED_ALWAYS_ON_FLAG /\ reset
        /\ StepTaken =>
              /\ steps = 0 => branch' = "reset"
              /\ branch' = "reset" => ~reset' /\ ~nmi' /\ ~irq'
              /\ branch' = "nmi" => nmi /\ ~nmi' /\ irq' = irq /\ reset' = reset
              /\ branch' = "irq" => irq
              /\ nmi' => nmi
              /\ irq' => irq
              /\ reset' => reset
      ]_vars

\* nmi() and irq() were called on the new CPU and its first step serviced the
\* reset and discarded both
NewCpuResetsFirstWitness ==
    /\ steps = 1 /\ branch = "reset" /\ fault = "none"
    /\ pre.pc = 0 /\ pre.sr = UNUSED_ALWAYS_ON_FLAG
    /\ pre.reset /\ pre.nmi /\ pre.irq
    /\ ~reset /\ ~nmi /\ ~irq
    /\ pc = image.org

====
